---------------------------- MODULE Spec2Model ----------------------------
(***************************************************************************)
(* A model of the fixture generators of dataSetGenerator                   *)
(* (src/Generation/*.py).  Every generator is a batch script: it loads its *)
(* pools, runs one bounded loop of random draws and writes the accepted    *)
(* rows.  The variable prog names the script being run; one step of a      *)
(* script's loop is one action, and every random draw of the step is an    *)
(* input of the action.                                                    *)
(*                                                                         *)
(* Time.  A datetime is a whole number of ticks counted from               *)
(* 2025-09-21T00:00:00 (the start of TODAY, the reference date of every    *)
(* script); a second has TicksPerSecond ticks.  The text of a timestamp,   *)
(* as found in an input file or written to a row, is a record              *)
(* [kind, d, s, f]: a calendar day, a second of that day and a fraction of *)
(* that second in ticks.  The generators write whole seconds               *)
(* (isoformat(timespec="seconds")); an input file may carry a fraction,    *)
(* which datetime.fromisoformat reads.  Timestamps carry no UTC offset.    *)
(*                                                                         *)
(* Optional values.  Python's None is the empty set, a present value v is  *)
(* the set {v}.                                                            *)
(***************************************************************************)
EXTENDS Integers, Sequences, FiniteSets, TLC

VARIABLES
    prog,              \* the script being run
    pc,                \* the script's position: "start", "baseline", "loop",
                       \* "rows", "pick", "done" or "error"
    n,                 \* args.n
    attempts,          \* the loop's attempts counter
    rows,              \* the output rows, in order
    used_pairs,        \* the set of pairs already used
    participants,      \* enrollments, consents: the participant id pool
    sessions,          \* enrollments: the session pool
    session_used,      \* enrollments: seats taken per session id
    enrollments,       \* payments: the enrollment pool
    consents_file,     \* consents: the rows of the consent versions file
    versions,          \* consents: the consent version pool
    allow_duplicates,  \* consents: args.allow_duplicates
    withdraw_rate,     \* consents: args.withdraw_rate, in percent
    studies,           \* study researchers: the study id pool
    researchers,       \* study researchers: the researcher id pool
    sr_args,           \* study researchers: pi_per_study, ra_min, ra_max
    study_idx,         \* study researchers: studies done by the baseline
    max_attempts,      \* study researchers: the attempts cap of the top-up
    study_ids,         \* sessions: the study id pool
    rooms,             \* sessions: the room pool
    room_schedules,    \* sessions: the intervals stored per room id
    cur,               \* sessions: the study id and room of the row in hand
    tries,             \* sessions: candidates drawn by pick_times_for_room
    picked,            \* sessions: the last candidate (start, end) drawn
    participants_file, \* consents: the participants file given to the run
    consents_head,     \* consents: presence and header of the versions file
    write_args,        \* participants: args.json_out and the suffix of
                       \* args.outfile
    outfile,           \* the rows written to the output file, None if none
    rows_again         \* participants: the rows of a second run made with
                       \* the same seed and flags

enrollVars == <<sessions, session_used>>
payVars == <<enrollments>>
consentVars == <<consents_file, versions, allow_duplicates, withdraw_rate>>
srVars == <<studies, researchers, sr_args, study_idx, max_attempts>>

sessVars == <<study_ids, rooms, room_schedules, cur, tries, picked>>

fileVars == <<participants_file, consents_head, write_args>>
ioVars == <<fileVars, outfile>>

vars == <<prog, pc, n, attempts, rows, used_pairs, participants,
          enrollVars, payVars, consentVars, srVars, sessVars, ioVars,
          rows_again>>

\* The variables of the scripts that are not being run.
EnrollIdle == sessions = <<>> /\ session_used = <<>>
PayIdle == enrollments = <<>>
ConsentIdle ==
    /\ consents_file = <<>> /\ versions = <<>>
    /\ allow_duplicates = FALSE /\ withdraw_rate = 0
SRIdle ==
    /\ studies = <<>> /\ researchers = <<>> /\ sr_args = <<>>
    /\ study_idx = 0 /\ max_attempts = 0
SessIdle ==
    /\ study_ids = <<>> /\ rooms = <<>> /\ room_schedules = <<>>
    /\ cur = <<>> /\ tries = 0 /\ picked = <<>>
\* No input file is described, and nothing has been written.
NoFiles ==
    participants_file = <<>> /\ consents_head = <<>> /\ write_args = <<>>
NotWritten == outfile = {}
NoRerun == rows_again = <<>>

(***************************************************************************)
(* Bounds of the model.                                                    *)
(***************************************************************************)
MaxN == 2

\* The resolution of the clock: the ticks of a second.
TicksPerSecond == 10

(***************************************************************************)
(* Generic helpers.                                                        *)
(***************************************************************************)
None == {}
Some(v) == {v}
The(opt) == CHOOSE v \in opt : TRUE
\* Python's `opt or default` for an optional that is None or a datetime.
OrElse(opt, default) == IF opt = None THEN default ELSE The(opt)

Min(a, b) == IF a <= b THEN a ELSE b
Max(a, b) == IF a >= b THEN a ELSE b

Range(seq) == {seq[i] : i \in 1..Len(seq)}

\* The outcomes of random.randint(lo, hi) that the model draws: both ends of
\* the range and the values next to its upper end.
RandInt(lo, hi) == {x \in {lo, hi - 1, hi} : lo <= x /\ x <= hi}

\* datetime.timedelta(days, hours, minutes, seconds), in ticks.
timedelta(days, hours, minutes, seconds) ==
    (((days * 24 + hours) * 60 + minutes) * 60 + seconds) * TicksPerSecond

\* int(delta.total_seconds())
total_seconds(delta) ==
    IF delta >= 0 THEN delta \div TicksPerSecond
    ELSE -((-delta) \div TicksPerSecond)

SecondsPerDay == timedelta(1, 0, 0, 0)

(***************************************************************************)
(* Timestamps as text.                                                     *)
(***************************************************************************)
BlankText == [kind |-> "blank", d |-> 0, s |-> 0, f |-> 0]
BadText == [kind |-> "bad", d |-> 0, s |-> 0, f |-> 0]
DateText(day) == [kind |-> "date", d |-> day, s |-> 0, f |-> 0]
\* The text "YYYY-MM-DDTHH:MM:SS" of day d, second s of the day.
StampText(day, sec) == [kind |-> "datetime", d |-> day, s |-> sec, f |-> 0]
\* The text "YYYY-MM-DDTHH:MM:SS.ffffff": the same with a fraction of f
\* ticks.
FractionText(day, sec, ticks) ==
    [kind |-> "fraction", d |-> day, s |-> sec, f |-> ticks]

\* dt.isoformat(timespec="seconds"): the fraction of the second is cut off.
iso(dt) ==
    StampText(dt \div SecondsPerDay,
              (dt % SecondsPerDay) \div TicksPerSecond)

\* parse_dt: None for a blank or unparseable text, else the datetime.  The
\* two strptime formats read a whole second or a date; what they reject
\* goes to datetime.fromisoformat, which reads the fraction.
parse_dt(text) ==
    CASE text.kind = "datetime" ->
           Some(text.d * SecondsPerDay + timedelta(0, 0, 0, text.s))
      [] text.kind = "date" -> Some(text.d * SecondsPerDay)
      [] text.kind = "fraction" ->
           Some(text.d * SecondsPerDay + timedelta(0, 0, 0, text.s) + text.f)
      [] OTHER -> None

(***************************************************************************)
(* generate_enrollments.py                                                 *)
(***************************************************************************)
TODAY == 0
ENROLL_OPEN_DAYS == 90

STATUS_WEIGHTS_FUTURE ==
    [enrolled |-> 70, cancelled |-> 12, waitlisted |-> 8,
     no_show |-> 0, attended |-> 0]

STATUS_WEIGHTS_PAST ==
    [attended |-> 55, no_show |-> 12, cancelled |-> 8,
     enrolled |-> 25, waitlisted |-> 0]

today_start == timedelta(TODAY, 0, 0, 0)
today_end == today_start + timedelta(0, 23, 59, 59)

\* rand_dt_between(a, b): the span randint draws from, and the result for
\* the drawn offset r.
rand_span(a, b) == Max(0, total_seconds(IF b < a THEN a - b ELSE b - a))
rand_dt_between(a, b, r) == (IF b < a THEN b ELSE a) + timedelta(0, 0, 0, r)

\* pick_weighted: the labels random.choices can return, those of weight > 0.
pick_weighted(weights) == {l \in DOMAIN weights : weights[l] > 0}

\* session_used.get(session_id, 0)
seats_taken(su, session_id) ==
    IF session_id \in DOMAIN su THEN su[session_id] ELSE 0

sess_start(sess) ==
    OrElse(parse_dt(sess.startTs), today_start + timedelta(7, 0, 0, 0))
sess_end(sess) ==
    OrElse(parse_dt(sess.endTs), sess_start(sess) + timedelta(0, 1, 0, 0))

\* A seat test that is off by one.
seat_available_off_by_one(sess, su) ==
    \/ sess.capacity = None
    \/ seats_taken(su, sess.session_id) <= Max(0, The(sess.capacity))

seat_available(sess, su) ==
    \/ sess.capacity = None
    \/ seats_taken(su, sess.session_id) < Max(0, The(sess.capacity))

\* Statuses drawn without regard to when the session runs.
status_choices_untimed(sess, su) ==
    IF seat_available(sess, su)
    THEN pick_weighted(STATUS_WEIGHTS_PAST)
             \cup pick_weighted(STATUS_WEIGHTS_FUTURE)
    ELSE {"waitlisted"}

\* The statuses build_enrollment_for can give a row of sess.
status_choices(sess, su) ==
    IF seat_available(sess, su)
    THEN IF sess_end(sess) <= today_end
         THEN pick_weighted(STATUS_WEIGHTS_PAST)
         ELSE pick_weighted(STATUS_WEIGHTS_FUTURE)
    ELSE {"waitlisted"}

\* A window for created_at that runs up to the end of the reference date
\* whenever the session starts.
created_window_until_now(start) ==
    <<start - timedelta(ENROLL_OPEN_DAYS, 0, 0, 0),
      Max(start, today_end)>>

\* The window created_at is drawn from: <<open_from, open_to>>.
created_window(start) ==
    LET open_from == start - timedelta(ENROLL_OPEN_DAYS, 0, 0, 0)
        open_to == Min(start - timedelta(0, 1, 0, 0), today_end)
    IN  IF open_to <= open_from
        THEN <<(start - timedelta(0, 0, 30, 0)) - timedelta(1, 0, 0, 0),
               start - timedelta(0, 0, 30, 0)>>
        ELSE <<open_from, open_to>>

\* The window updated_at is drawn from, by status.
updated_window(status, start, end, created_at) ==
    IF status = "cancelled"
    THEN LET last0 == Min(start - timedelta(0, 0, 10, 0), today_end)
             last == IF last0 <= created_at
                     THEN created_at + timedelta(0, 0, 5, 0) ELSE last0
         IN  <<created_at + timedelta(0, 0, 1, 0), last>>
    ELSE IF status \in {"attended", "no_show"}
    THEN LET base == IF end <= today_end THEN end ELSE start
         IN  <<base, Min(base + timedelta(0, 3, 0, 0), today_end)>>
    ELSE LET last0 == Min(today_end, start)
             last == IF last0 <= created_at
                     THEN created_at + timedelta(0, 0, 5, 0) ELSE last0
         IN  <<created_at, last>>

\* A seat rule under which every status but cancelled holds a seat.
occupies_seat_unless_cancelled(status) == status # "cancelled"

occupies_seat(status) == status \in {"enrolled", "attended", "no_show"}

\* A seat count that grows with every accepted row, whatever its status.
count_seat_any_status(sess, su, status) ==
    [k \in DOMAIN su \cup {sess.session_id} |->
        IF k = sess.session_id
        THEN seats_taken(su, sess.session_id) + 1 ELSE su[k]]

\* session_used after a row of the given status is accepted for sess.
count_seat(sess, su, status) ==
    IF seat_available(sess, su) /\ occupies_seat(status)
    THEN [k \in DOMAIN su \cup {sess.session_id} |->
            IF k = sess.session_id
            THEN seats_taken(su, sess.session_id) + 1 ELSE su[k]]
    ELSE su

\* A guard that looks the pair up in the wrong order.
pair_is_used_swapped(used, participant_id, session_id) ==
    <<session_id, participant_id>> \in used

\* The duplicate guard of build_enrollment_for.
pair_is_used(used, participant_id, session_id) ==
    <<participant_id, session_id>> \in used

\* The row build_enrollment_for returns for the draws (status, rc, ru).
enrollment_row(participant_id, sess, status, rc, ru) ==
    LET start == sess_start(sess)
        end == sess_end(sess)
        cw == created_window(start)
        created_at == rand_dt_between(cw[1], cw[2], rc)
        uw == updated_window(status, start, end, created_at)
        updated_at == rand_dt_between(uw[1], uw[2], ru)
    IN  [participant_id |-> participant_id,
         session_id |-> sess.session_id,
         status |-> status,
         created_at |-> iso(created_at),
         updated_at |-> iso(updated_at)]

\* The offsets the two rand_dt_between calls can draw.
created_draws(sess) ==
    LET cw == created_window(sess_start(sess))
    IN  RandInt(0, rand_span(cw[1], cw[2]))
updated_draws(sess, status, rc) ==
    LET start == sess_start(sess)
        cw == created_window(start)
        created_at == rand_dt_between(cw[1], cw[2], rc)
        uw == updated_window(status, start, sess_end(sess), created_at)
    IN  RandInt(0, rand_span(uw[1], uw[2]))

\* Input pools of the enrollment script.
Stamp(dt) == iso(dt)
Sess(id, startTs, endTs, cap) ==
    [session_id |-> id, startTs |-> startTs, endTs |-> endTs,
     capacity |-> cap]

\* Sessions by when they run, relative to the reference date.
PastSess(id, cap) ==
    Sess(id, Stamp(today_start - timedelta(3, -10, 0, 0)),
         Stamp(today_start - timedelta(3, -11, 0, 0)), cap)
FutureSess(id, cap) ==
    Sess(id, Stamp(today_start + timedelta(7, 9, 0, 0)),
         Stamp(today_start + timedelta(7, 10, 0, 0)), cap)
FarSess(id, cap) ==
    Sess(id, Stamp(today_start + timedelta(100, 9, 0, 0)), BlankText, cap)
UntimedSess(id, cap) == Sess(id, BlankText, BadText, cap)
\* A session whose endTs lies before its startTs.
InvertedSess(id, cap) ==
    Sess(id, Stamp(today_start + timedelta(7, 9, 0, 0)),
         DateText(TODAY - 1), cap)
\* Sessions whose times carry a fraction of a second: one that ended half
\* a second before the last second of the reference date, one that starts
\* in a week.
FractionEndSess(id, cap) ==
    Sess(id, Stamp(today_start + timedelta(0, 22, 0, 0)),
         FractionText(TODAY, 86398, 5), cap)
FractionStartSess(id, cap) ==
    Sess(id, FractionText(TODAY + 7, 32400, 5),
         FractionText(TODAY + 7, 36000, 5), cap)

\* The pools the script is run on: <<participants, sessions>>.  A pool may
\* list an id twice, and two entries of the session pool may share a
\* session_id (the id derived from study, room and start is the same for
\* two sessions a room holds at the same time).
EnrollConfigs ==
    {<<ps, <<s>>>> :
        ps \in {<<"p1">>},
        s \in {FutureSess("s1", Some(1)), PastSess("s1", Some(1)),
               FutureSess("s1", Some(0)), PastSess("s1", Some(-1)),
               FarSess("s1", None), UntimedSess("s1", Some(2)),
               InvertedSess("s1", None), FractionEndSess("s1", None),
               FractionStartSess("s1", None)}}
    \cup
    {<<ps, <<s>>>> :
        ps \in {<<"p1", "p2">>},
        s \in {FutureSess("s1", Some(1)), PastSess("s1", Some(1)),
               FutureSess("s1", Some(0))}}
    \cup
    {<<<<"p1", "p1">>,
       <<FutureSess("s1", Some(1)), FutureSess("s1", Some(1))>>>>,
     <<<<"p1", "p2">>,
       <<FutureSess("s1", Some(1)), FutureSess("s1", Some(2))>>>>,
     <<<<"p1">>,
       <<PastSess("s1", Some(1)), FutureSess("s2", None)>>>>}

NValues == 0..MaxN

InitEnroll ==
    /\ prog = "enrollments"
    /\ pc = "loop"
    /\ n \in NValues
    /\ attempts = 0
    /\ rows = <<>>
    /\ used_pairs = {}
    /\ \E cfg \in EnrollConfigs :
         participants = cfg[1] /\ sessions = cfg[2]
    /\ session_used = <<>>
    /\ PayIdle /\ ConsentIdle /\ SRIdle /\ SessIdle
    /\ NoFiles /\ NotWritten /\ NoRerun

\* args.n * 15
enroll_max_attempts == n * 15

\* One pass of the while-loop of main whose pair was already used:
\* build_enrollment_for returns None.
EnrollReject ==
    /\ prog = "enrollments" /\ pc = "loop"
    /\ Len(rows) < n /\ attempts < enroll_max_attempts
    /\ \E i \in 1..Len(participants), j \in 1..Len(sessions) :
         pair_is_used(used_pairs, participants[i], sessions[j].session_id)
    /\ attempts' = attempts + 1
    /\ UNCHANGED <<rows_again, ioVars, sessVars, prog, pc, n, rows, used_pairs, participants, enrollVars,
                   payVars, consentVars, srVars>>

\* One pass of the while-loop of main that appends a row.
EnrollAccept ==
    /\ prog = "enrollments" /\ pc = "loop"
    /\ Len(rows) < n /\ attempts < enroll_max_attempts
    /\ \E i \in 1..Len(participants), j \in 1..Len(sessions) :
         LET pid == participants[i]
             sess == sessions[j]
         IN  /\ ~pair_is_used(used_pairs, pid, sess.session_id)
             /\ \E status \in status_choices(sess, session_used) :
                \E rc \in created_draws(sess) :
                \E ru \in updated_draws(sess, status, rc) :
                  /\ rows' = Append(rows,
                                enrollment_row(pid, sess, status, rc, ru))
                  /\ session_used' = count_seat(sess, session_used, status)
                  /\ used_pairs' =
                       used_pairs \cup {<<pid, sess.session_id>>}
    /\ attempts' = attempts + 1
    /\ UNCHANGED <<rows_again, ioVars, sessVars, prog, pc, n, participants, sessions, payVars,
                   consentVars, srVars>>

\* The while-loop of main ends: the rows are written out.
EnrollFinish ==
    /\ prog = "enrollments" /\ pc = "loop"
    /\ ~(Len(rows) < n /\ attempts < enroll_max_attempts)
    /\ pc' = "done"
    /\ outfile' = Some(rows)
    /\ UNCHANGED <<rows_again, fileVars, sessVars, prog, n, attempts, rows, used_pairs, participants,
                   enrollVars, payVars, consentVars, srVars>>

NextEnroll == EnrollReject \/ EnrollAccept \/ EnrollFinish

SpecEnroll == InitEnroll /\ [][NextEnroll]_vars

(***************************************************************************)
(* Properties of generate_enrollments.py                                   *)
(***************************************************************************)
row_pair(r) == <<r.participant_id, r.session_id>>
row_created(r) == The(parse_dt(r.created_at))
row_updated(r) == The(parse_dt(r.updated_at))

\* The number of rows among the first k that hold a seat of session sid.
seats_held(sid, k) ==
    Cardinality({i \in 1..k :
        rows[i].session_id = sid /\ occupies_seat(rows[i].status)})

pool_has_repeated_ids ==
    \/ \E i, j \in 1..Len(participants) :
         i # j /\ participants[i] = participants[j]
    \/ \E i, j \in 1..Len(sessions) :
         i # j /\ sessions[i].session_id = sessions[j].session_id

\* C1: in the Enrollment generator no two accepted rows share the same
\* (participant_id, session_id) pair, whatever the pools are, pools that
\* list an id more than once included.
C1_NoDuplicatePairs ==
    prog = "enrollments" =>
        \A i, j \in 1..Len(rows) :
            i # j => row_pair(rows[i]) # row_pair(rows[j])

\* A run on a pool with a repeated id in which a row was accepted and a
\* later attempt on the same pair was rejected.
C1_Witness ==
    /\ prog = "enrollments"
    /\ pool_has_repeated_ids
    /\ Len(rows) >= 1
    /\ attempts > Len(rows)

\* C2: for every session of the pool with a known capacity c, the accepted
\* rows of that session that hold a seat (enrolled, attended, no_show)
\* number at most max(0, c), at every point of the run.
C2_SeatsWithinCapacity ==
    prog = "enrollments" =>
        \A j \in 1..Len(sessions) :
            sessions[j].capacity # None =>
                seats_held(sessions[j].session_id, Len(rows))
                    <= Max(0, The(sessions[j].capacity))

\* The pool is a single session of known capacity.
single_session_pool == Len(sessions) = 1 /\ sessions[1].capacity # None

\* C3 as stated: with a single session of capacity c and more than c rows,
\* every row that holds no seat is waitlisted.
C3_RemainderWaitlisted ==
    (prog = "enrollments" /\ single_session_pool
        /\ Len(rows) > The(sessions[1].capacity)) =>
        \A i \in 1..Len(rows) :
            ~occupies_seat(rows[i].status) => rows[i].status = "waitlisted"

\* C3 as amended: with a single session of capacity c and more than c
\* rows, a row that holds no seat is waitlisted or cancelled, and every row
\* accepted once max(0, c) rows hold a seat is waitlisted.
C3_RemainderWaitlistedOrCancelled ==
    (prog = "enrollments" /\ single_session_pool
        /\ Len(rows) > The(sessions[1].capacity)) =>
        \A i \in 1..Len(rows) :
            /\ ~occupies_seat(rows[i].status) =>
                   rows[i].status \in {"waitlisted", "cancelled"}
            /\ seats_held(sessions[1].session_id, i - 1)
                   >= Max(0, The(sessions[1].capacity)) =>
                   rows[i].status = "waitlisted"

\* More rows than seats: the seats are all held, a row after that is
\* waitlisted.
C3_Witness ==
    /\ prog = "enrollments" /\ single_session_pool
    /\ The(sessions[1].capacity) = 1
    /\ Len(rows) = 2
    /\ occupies_seat(rows[1].status)
    /\ rows[2].status = "waitlisted"

\* C4: every Enrollment row has created_at <= updated_at, for every status
\* and every session of the pool.
C4_CreatedBeforeUpdated ==
    prog = "enrollments" =>
        \A i \in 1..Len(rows) : row_created(rows[i]) <= row_updated(rows[i])

\* C4 holds of the rows of every session that does not end before it
\* starts.
C4_CreatedBeforeUpdatedWellFormed ==
    prog = "enrollments" =>
        \A i \in 1..Len(rows) :
            (\A j \in 1..Len(sessions) :
                sessions[j].session_id = rows[i].session_id =>
                    sess_start(sessions[j]) <= sess_end(sessions[j]))
            => row_created(rows[i]) <= row_updated(rows[i])

\* C2 holds of every session id that the pool lists with one capacity.
C2_SeatsWithinCapacityOneCapacity ==
    prog = "enrollments" =>
        \A j \in 1..Len(sessions) :
            (/\ sessions[j].capacity # None
             /\ \A k \in 1..Len(sessions) :
                  sessions[k].session_id = sessions[j].session_id =>
                      sessions[k].capacity = sessions[j].capacity)
            => seats_held(sessions[j].session_id, Len(rows))
                   <= Max(0, The(sessions[j].capacity))


(***************************************************************************)
(* generate_payments.py                                                    *)
(***************************************************************************)
\* random.choices(labels, weights, k=1)[0]: the labels of weight > 0.
choices(labels, weights) ==
    {labels[i] : i \in {k \in 1..Len(labels) : weights[k] > 0}}

AMOUNT_BUCKETS == <<10, 15, 20, 25, 30, 40, 50>>
AMOUNT_WEIGHTS == <<10, 22, 28, 20, 12, 5, 3>>
METHODS == <<"gift_card", "cash", "credit_card", "paypal", "venmo">>
METHOD_WEIGHTS == <<45, 20, 15, 10, 10>>

pick_amount == choices(AMOUNT_BUCKETS, AMOUNT_WEIGHTS)
pick_method == choices(METHODS, METHOD_WEIGHTS)

\* str.strip().lower() on the status texts of the model.
strip_lower(text) ==
    CASE text = " Attended " -> "attended"
      [] text = "Attended" -> "attended"
      [] text = "WAITLISTED" -> "waitlisted"
      [] text = " " -> ""
      [] OTHER -> text

\* str.lower() on the status texts of the model.
lower(text) ==
    CASE text = " Attended " -> " attended "
      [] text = "Attended" -> "attended"
      [] text = "WAITLISTED" -> "waitlisted"
      [] OTHER -> text

\* A mapping that treats every enrollment status as unknown.
map_payment_status_default(enrollment_status) ==
    choices(<<"pending", "paid", "failed", "refunded", "waived">>,
            <<85, 5, 3, 2, 5>>)

\* The payment statuses map_payment_status can return.
map_payment_status(enrollment_status) ==
    LET s == lower(enrollment_status)
    IN  CASE s = "attended" ->
               choices(<<"paid", "pending", "refunded", "failed">>,
                       <<82, 8, 5, 5>>)
          [] s = "no_show" ->
               choices(<<"waived", "pending", "paid", "refunded", "failed">>,
                       <<70, 10, 5, 5, 10>>)
          [] s = "cancelled" ->
               choices(<<"refunded", "void", "failed", "waived">>,
                       <<60, 35, 3, 2>>)
          [] s = "waitlisted" -> {"void"}
          [] OTHER ->
               choices(<<"pending", "paid", "failed", "refunded", "waived">>,
                       <<85, 5, 3, 2, 5>>)

\* An amount rule that zeroes void payments only.
amount_for_status_void_only(pay_status) ==
    IF pay_status \in {"void"} THEN {0} ELSE pick_amount

\* The amounts amount_for_status can return.
amount_for_status(pay_status) ==
    IF pay_status \in {"void", "waived"} THEN {0} ELSE pick_amount

\* The methods method_for_status can return.
method_for_status(pay_status) ==
    IF pay_status \in {"void", "waived"} THEN {"none"} ELSE pick_method

Enr(pid, sid, status) ==
    [participant_id |-> pid, session_id |-> sid, status |-> status]

\* read_enrollments: the rows of the file that have both ids, with the
\* status stripped and lower-cased.
read_enrollments(file) ==
    LET kept == SelectSeq(file, LAMBDA r :
                    r.participant_id # "" /\ r.session_id # "")
    IN  [i \in 1..Len(kept) |->
            Enr(kept[i].participant_id, kept[i].session_id,
                strip_lower(kept[i].status))]

\* The enrollment files the script is run on.  A file may list a pair
\* twice, may carry a status the script does not know or one in another
\* case, and may have rows without an id.
PayEnrollmentFiles ==
    {<<Enr("p1", "s1", st)>> :
        st \in {"enrolled", "waitlisted", "cancelled", "attended",
                "no_show", "", " Attended ", "WAITLISTED", "pending"}}
    \cup
    {<<Enr("p1", "s1", "cancelled"), Enr("p1", "s1", "waitlisted")>>,
     <<Enr("p1", "s1", "waitlisted"), Enr("p2", "s1", "cancelled")>>,
     <<Enr("", "s1", "attended"), Enr("p1", "s1", "no_show")>>,
     <<Enr("p1", "s1", "waitlisted"), Enr("p1", "s2", "waitlisted"),
       Enr("p2", "s2", "waitlisted")>>}

\* The enrollment pools main draws from.
PayEnrollmentPools == {read_enrollments(file) : file \in PayEnrollmentFiles}

InitPay ==
    /\ prog = "payments"
    /\ pc = "loop"
    /\ n \in NValues
    /\ attempts = 0
    /\ rows = <<>>
    /\ used_pairs = {}
    /\ participants = <<>>
    /\ enrollments \in PayEnrollmentPools
    /\ EnrollIdle /\ ConsentIdle /\ SRIdle /\ SessIdle
    /\ NoFiles /\ NotWritten /\ NoRerun

\* args.n * 10
pay_max_attempts == n * 10

\* A key that tells apart two enrollments of one pair by their status.
pay_pair_with_status(e) == <<e.participant_id, e.session_id, e.status>>

\* pair: the key main looks up in used_pairs.
pay_pair(e) == <<e.participant_id, e.session_id>>

\* One pass of the while-loop of main on a pair already paid: continue.
PayReject ==
    /\ prog = "payments" /\ pc = "loop"
    /\ Len(rows) < n /\ attempts < pay_max_attempts
    /\ \E i \in 1..Len(enrollments) :
         pay_pair(enrollments[i]) \in used_pairs
    /\ attempts' = attempts + 1
    /\ UNCHANGED <<rows_again, ioVars, sessVars, prog, pc, n, rows, used_pairs, participants, enrollVars,
                   payVars, consentVars, srVars>>

\* One pass of the while-loop of main that appends a payment row.
PayAccept ==
    /\ prog = "payments" /\ pc = "loop"
    /\ Len(rows) < n /\ attempts < pay_max_attempts
    /\ \E i \in 1..Len(enrollments) :
         LET e == enrollments[i]
             pair == pay_pair(e)
         IN  /\ pair \notin used_pairs
             /\ \E pay_status \in map_payment_status(e.status) :
                \E amount \in amount_for_status(pay_status) :
                \E method \in method_for_status(pay_status) :
                  rows' = Append(rows,
                            [participant_id |-> e.participant_id,
                             session_id |-> e.session_id,
                             amount |-> amount,
                             method |-> method,
                             status |-> pay_status])
             /\ used_pairs' = used_pairs \cup {pair}
    /\ attempts' = attempts + 1
    /\ UNCHANGED <<rows_again, ioVars, sessVars, prog, pc, n, participants, enrollVars, payVars,
                   consentVars, srVars>>

\* The while-loop of main ends: the rows are written out.
PayFinish ==
    /\ prog = "payments" /\ pc = "loop"
    /\ ~(Len(rows) < n /\ attempts < pay_max_attempts)
    /\ pc' = "done"
    /\ outfile' = Some(rows)
    /\ UNCHANGED <<rows_again, fileVars, sessVars, prog, n, attempts, rows, used_pairs, participants,
                   enrollVars, payVars, consentVars, srVars>>

NextPay == PayReject \/ PayAccept \/ PayFinish

SpecPay == InitPay /\ [][NextPay]_vars

(***************************************************************************)
(* Properties of generate_payments.py                                      *)
(***************************************************************************)
\* C5: for every Payment row, amount is 0 if and only if the payment
\* status is void or waived, and method is "none" if and only if the
\* payment status is void or waived.
C5_ZeroAmountIffVoidOrWaived ==
    prog = "payments" =>
        \A i \in 1..Len(rows) :
            /\ rows[i].amount = 0 <=> rows[i].status \in {"void", "waived"}
            /\ rows[i].method = "none"
                   <=> rows[i].status \in {"void", "waived"}

\* A run that wrote a void payment and a payment with money in it.
C5_Witness ==
    /\ prog = "payments"
    /\ \E i \in 1..Len(rows) : rows[i].status = "void"
    /\ \E i \in 1..Len(rows) : rows[i].status = "refunded"

(***************************************************************************)
(* generate_consent_versions.py: ParticipantConsent rows from a            *)
(* participants file and a consent versions file.                          *)
(***************************************************************************)
\* The outcomes of random.random() the model draws, in percent.
RandUnit == {0, 99}

\* A row of the consent versions file.
Ver(id, effectiveFrom, effectiveTo) ==
    [consent_version_id |-> id, effectiveFrom |-> effectiveFrom,
     effectiveTo |-> effectiveTo]

\* read_consent_versions: the parsed rows whose effectiveFrom has begun.
read_consent_versions(file) ==
    LET parsed == [i \in 1..Len(file) |->
                     [consent_version_id |-> file[i].consent_version_id,
                      from |-> parse_dt(file[i].effectiveFrom),
                      to |-> parse_dt(file[i].effectiveTo)]]
        begun(r) == r.from # None /\ The(r.from) <= today_end
    IN  SelectSeq(parsed, begun)

\* The end of the signing window of a version.
signing_end(eff_to) == Min(OrElse(eff_to, today_end), today_end)

\* pick_signed: the signing times it can return, None for an empty window.
pick_signed(eff_from, eff_to) ==
    IF signing_end(eff_to) < eff_from
    THEN {None}
    ELSE {Some(eff_from + timedelta(0, 0, 0, r)) :
            r \in RandInt(0, Max(0, total_seconds(signing_end(eff_to)
                                                     - eff_from)))}

\* The withdrawal time of maybe_withdraw for the drawn offset r.
withdraw_time(signed_at, last, r) ==
    IF signed_at + timedelta(0, 0, 0, r) > last
    THEN last
    ELSE signed_at + timedelta(0, 0, 0, r)

\* maybe_withdraw: the withdrawnAt texts it can return.
maybe_withdraw(signed_at, eff_to, rate) ==
    LET last == signing_end(eff_to)
    IN  (IF \E u \in RandUnit : u >= rate THEN {BlankText} ELSE {})
        \cup
        (IF \E u \in RandUnit : u < rate
         THEN IF last <= signed_at
              THEN {BlankText}
              ELSE {iso(withdraw_time(signed_at, last, r)) :
                      r \in RandInt(60, Max(60, total_seconds(last
                                                             - signed_at)))}
         ELSE {})

\* Consent version files the script is run on.
OpenOldVer(id) == Ver(id, DateText(TODAY - 300), BlankText)
ClosedVer(id) == Ver(id, DateText(TODAY - 100), DateText(TODAY - 50))
ShortVer(id) ==
    Ver(id, StampText(TODAY - 10, 0), StampText(TODAY - 10, 30))
ToFutureVer(id) == Ver(id, DateText(TODAY - 5), DateText(TODAY + 30))
EmptyVer(id) == Ver(id, DateText(TODAY - 10), DateText(TODAY - 20))
FutureOnlyVer(id) == Ver(id, DateText(TODAY + 10), BlankText)
NoFromVer(id) == Ver(id, BlankText, BlankText)
\* Versions whose bounds carry a fraction of a second: one open for two
\* hours, one open for less than a second.
FractionVer(id) ==
    Ver(id, FractionText(TODAY - 10, 36000, 1),
        FractionText(TODAY - 10, 43200, 9))
SubSecondVer(id) ==
    Ver(id, FractionText(TODAY - 10, 36000, 1),
        FractionText(TODAY - 10, 36000, 9))

\* <<participants, consent versions file>>
ConsentFileConfigs ==
    {<<<<"p1">>, <<v>>>> :
        v \in {OpenOldVer("v1"), ClosedVer("v1"), ShortVer("v1"),
               ToFutureVer("v1"), EmptyVer("v1"), FutureOnlyVer("v1"),
               NoFromVer("v1"), FractionVer("v1"), SubSecondVer("v1")}}
    \cup
    {<<<<"p1">>, <<ClosedVer("v1"), EmptyVer("v2")>>>>,
     <<<<"p1">>, <<FutureOnlyVer("v1"), OpenOldVer("v2")>>>>,
     <<<<"p1", "p2">>, <<ShortVer("v1")>>>>,
     <<<<"p1", "p1">>, <<ClosedVer("v1"), ClosedVer("v1")>>>>,
     <<<<>>, <<ClosedVer("v1")>>>>}

WithdrawRates == {0, 15, 100}

\* A participants file: whether it exists, its shape ("csv", or for a
\* .json file "json_objects" for a list of objects and "json_list" for a
\* list of plain values), whether its header or first object has a
\* participant_id (or id) key, and per row, in file order, the text under
\* the key the reader picks ("" for an object without that key).
PFile(exists, shape, has_column, ids) ==
    [exists |-> exists, shape |-> shape, has_column |-> has_column,
     ids |-> ids]

\* Presence and header of the consent versions file: whether it exists,
\* its shape ("csv" or "json") and whether its header or objects have the
\* three keys.  The rows of the file hold, per key, the text the reader
\* gets: a blank text for a key a JSON object lacks (row.get with a
\* default), the text under id for an object without consent_version_id.
CHead(exists, shape, has_columns) ==
    [exists |-> exists, shape |-> shape, has_columns |-> has_columns]

\* The ids of a list that are not empty, in order.
nonempty_ids(ids) == SelectSeq(ids, LAMBDA id : id # "")

\* read_participant_ids: None when it raises (file missing, CSV without an
\* id column); the non-empty ids of a CSV column; the non-empty texts the
\* objects of a JSON list hold under the key picked from the first object;
\* every value of a JSON list of plain values, the empty ones included.
read_participant_ids(file) ==
    IF ~file.exists
    THEN None
    ELSE IF file.shape = "json_list"
    THEN Some(file.ids)
    ELSE IF file.shape = "json_objects"
    THEN Some(nonempty_ids(file.ids))
    ELSE IF ~file.has_column
    THEN None
    ELSE Some(nonempty_ids(file.ids))

\* read_consent_versions raises: file missing, or a CSV without one of the
\* three columns.  The JSON branch has no such test.
consent_versions_raise(head) ==
    ~head.exists \/ (head.shape = "csv" /\ ~head.has_columns)

\* The input files the script is run on: <<participants file, versions
\* file header, versions file rows>>.
ConsentFileInputs ==
    {<<PFile(TRUE, "csv", TRUE, cfg[1]), CHead(TRUE, "csv", TRUE), cfg[2]>> :
        cfg \in ConsentFileConfigs}
    \cup
    {<<pf, CHead(TRUE, "csv", TRUE), <<ClosedVer("v1")>>>> :
        pf \in {PFile(FALSE, "csv", FALSE, <<>>),
                PFile(TRUE, "csv", FALSE, <<>>),
                PFile(TRUE, "csv", TRUE, <<"">>),
                PFile(TRUE, "csv", TRUE, <<"", "p1">>),
                PFile(FALSE, "json_list", FALSE, <<>>),
                PFile(TRUE, "json_list", FALSE, <<>>),
                PFile(TRUE, "json_list", FALSE, <<"">>),
                PFile(TRUE, "json_list", FALSE, <<"", "p1">>),
                PFile(TRUE, "json_objects", FALSE, <<"">>),
                PFile(TRUE, "json_objects", FALSE, <<"", "p1">>),
                PFile(TRUE, "json_objects", TRUE, <<"">>),
                PFile(TRUE, "json_objects", TRUE, <<"", "p1">>)}}
    \cup
    {<<PFile(TRUE, "csv", TRUE, <<"p1">>), ch, rs>> :
        ch \in {CHead(FALSE, "csv", FALSE), CHead(TRUE, "csv", FALSE),
                CHead(FALSE, "json", FALSE)},
        rs \in {<<>>}}
    \cup
    {<<PFile(TRUE, "csv", TRUE, <<"p1">>), CHead(TRUE, "csv", TRUE), <<>>>>,
     <<PFile(TRUE, "csv", TRUE, <<"p1">>), CHead(TRUE, "csv", TRUE),
       <<FutureOnlyVer("v1"), FutureOnlyVer("v2")>>>>,
     <<PFile(TRUE, "csv", TRUE, <<"p1">>), CHead(TRUE, "json", FALSE),
       <<ClosedVer("v1")>>>>,
     <<PFile(TRUE, "csv", TRUE, <<"p1">>), CHead(TRUE, "json", FALSE),
       <<OpenOldVer("v1")>>>>,
     <<PFile(TRUE, "csv", TRUE, <<"p1">>), CHead(TRUE, "json", FALSE),
       <<ClosedVer("")>>>>,
     <<PFile(TRUE, "csv", TRUE, <<"p1">>), CHead(TRUE, "json", FALSE),
       <<NoFromVer("v1")>>>>,
     <<PFile(TRUE, "csv", TRUE, <<"p1">>), CHead(TRUE, "json", TRUE),
       <<ClosedVer("v1")>>>>,
     <<PFile(TRUE, "csv", TRUE, <<"p1">>), CHead(TRUE, "json", TRUE),
       <<FutureOnlyVer("v1")>>>>}

\* main before the files are read.
InitConsentFile ==
    /\ prog = "consents_file"
    /\ pc = "start"
    /\ n \in NValues
    /\ attempts = 0
    /\ rows = <<>>
    /\ used_pairs = {}
    /\ participants = <<>>
    /\ versions = <<>>
    /\ \E inp \in ConsentFileInputs :
         /\ participants_file = inp[1]
         /\ consents_head = inp[2]
         /\ consents_file = inp[3]
    /\ write_args = <<>>
    /\ allow_duplicates \in BOOLEAN
    /\ withdraw_rate \in WithdrawRates
    /\ EnrollIdle /\ PayIdle /\ SRIdle /\ SessIdle
    /\ NotWritten /\ NoRerun

\* main reads the two files and finds participants and usable versions.
ConsentFileLoad ==
    /\ prog = "consents_file" /\ pc = "start"
    /\ read_participant_ids(participants_file) \notin {None, Some(<<>>)}
    /\ ~consent_versions_raise(consents_head)
    /\ read_consent_versions(consents_file) # <<>>
    /\ participants' = The(read_participant_ids(participants_file))
    /\ versions' = read_consent_versions(consents_file)
    /\ pc' = "loop"
    /\ UNCHANGED <<rows_again, ioVars, sessVars, prog, n, attempts, rows, used_pairs,
                   consents_file, allow_duplicates, withdraw_rate,
                   enrollVars, payVars, srVars>>

\* main stops with an error: a reader raises, or main raises ValueError
\* for an empty participant or version list.  The participants are read
\* first.
ConsentFileLoadError ==
    /\ prog = "consents_file" /\ pc = "start"
    /\ IF read_participant_ids(participants_file) \in {None, Some(<<>>)}
       THEN UNCHANGED participants
       ELSE /\ \/ consent_versions_raise(consents_head)
               \/ read_consent_versions(consents_file) = <<>>
            /\ participants' = The(read_participant_ids(participants_file))
    /\ pc' = "error"
    /\ UNCHANGED <<rows_again, ioVars, sessVars, prog, n, attempts, rows, used_pairs,
                   enrollVars, payVars, consentVars, srVars>>

\* n * 10
consent_max_attempts == n * 10

consent_looping(p) ==
    /\ prog = p /\ pc = "loop"
    /\ Len(rows) < n /\ attempts < consent_max_attempts

\* A pair guard that lets every pair through.
consent_pair_blocked_never(pid, cvid) == FALSE

\* The pair guard of the consent loops.
consent_pair_blocked(pid, cvid) ==
    ~allow_duplicates /\ <<pid, cvid>> \in used_pairs

\* One pass of the loop of make_rows on a used pair: continue.
ConsentFileReject ==
    /\ consent_looping("consents_file")
    /\ \E i \in 1..Len(participants), j \in 1..Len(versions) :
         consent_pair_blocked(participants[i],
                              versions[j].consent_version_id)
    /\ attempts' = attempts + 1
    /\ UNCHANGED <<rows_again, ioVars, sessVars, prog, pc, n, rows, used_pairs, participants, enrollVars,
                   payVars, consentVars, srVars>>

\* One pass of the loop of make_rows on a version with an empty signing
\* window: pick_signed returns None, continue.
ConsentFileSkip ==
    /\ consent_looping("consents_file")
    /\ \E i \in 1..Len(participants), j \in 1..Len(versions) :
         /\ ~consent_pair_blocked(participants[i],
                                  versions[j].consent_version_id)
         /\ None \in pick_signed(The(versions[j].from), versions[j].to)
    /\ attempts' = attempts + 1
    /\ UNCHANGED <<rows_again, ioVars, sessVars, prog, pc, n, rows, used_pairs, participants, enrollVars,
                   payVars, consentVars, srVars>>

\* One pass of the loop of make_rows that appends a row.
ConsentFileAccept ==
    /\ consent_looping("consents_file")
    /\ \E i \in 1..Len(participants), j \in 1..Len(versions) :
         LET pid == participants[i]
             v == versions[j]
         IN  /\ ~consent_pair_blocked(pid, v.consent_version_id)
             /\ \E signed \in pick_signed(The(v.from), v.to) \ {None} :
                \E withdrawn \in
                       maybe_withdraw(The(signed), v.to, withdraw_rate) :
                  rows' = Append(rows,
                            [participant_id |-> pid,
                             consent_version_id |-> v.consent_version_id,
                             signedAt |-> iso(The(signed)),
                             withdrawnAt |-> withdrawn])
             /\ used_pairs' = used_pairs \cup {<<pid, v.consent_version_id>>}
    /\ attempts' = attempts + 1
    /\ UNCHANGED <<rows_again, ioVars, sessVars, prog, pc, n, participants, enrollVars, payVars,
                   consentVars, srVars>>

\* The loop of make_rows ends: main writes the rows out.
ConsentFileFinish ==
    /\ prog = "consents_file" /\ pc = "loop"
    /\ ~(Len(rows) < n /\ attempts < consent_max_attempts)
    /\ pc' = "done"
    /\ outfile' = Some(rows)
    /\ UNCHANGED <<rows_again, fileVars, sessVars, prog, n, attempts, rows, used_pairs, participants,
                   enrollVars, payVars, consentVars, srVars>>

NextConsentFile ==
    \/ ConsentFileLoad
    \/ ConsentFileLoadError
    \/ ConsentFileReject
    \/ ConsentFileSkip
    \/ ConsentFileAccept
    \/ ConsentFileFinish

(***************************************************************************)
(* generate_participant_consents.py and generate_researchers.py: the two   *)
(* scripts that write ParticipantConsent rows from synthesized id pools.   *)
(***************************************************************************)
SIGNED_WINDOW_DAYS == 540
WITHDRAW_MAX_DAYS_AFTER_SIGN == 240

\* The signedAt values of a synthesized row.
synth_signed_at ==
    LET a == today_start - timedelta(SIGNED_WINDOW_DAYS, 0, 0, 0)
    IN  {rand_dt_between(a, today_end, r) :
            r \in RandInt(0, rand_span(a, today_end))}

\* The latest withdrawal time the row factory computes.
synth_latest(signed_at) ==
    Min(signed_at + timedelta(WITHDRAW_MAX_DAYS_AFTER_SIGN, 0, 0, 0),
        today_end)

\* The withdrawnAt texts of make_participant_consent_row
\* (generate_participant_consents.py) for a signedAt.
make_participant_consent_row_withdrawn(signed_at, rate) ==
    LET latest == synth_latest(signed_at)
        a == signed_at + timedelta(0, 0, 1, 0)
    IN  (IF \E u \in RandUnit : ~(u < rate) THEN {BlankText} ELSE {})
        \cup
        (IF \E u \in RandUnit : u < rate
         THEN IF latest > signed_at
              THEN {iso(rand_dt_between(a, latest, r)) :
                      r \in RandInt(0, rand_span(a, latest))}
              ELSE {BlankText}
         ELSE {})

\* The withdrawnAt texts of make_row (generate_researchers.py).
make_row_withdrawn(signed_at, rate) ==
    LET latest == synth_latest(signed_at)
        start_dt == signed_at + timedelta(0, 0, 1, 0)
    IN  (IF \E u \in RandUnit : ~(u < rate) THEN {BlankText} ELSE {})
        \cup
        (IF \E u \in RandUnit : u < rate
         THEN IF latest > signed_at
              THEN {iso(rand_dt_between(start_dt, latest, r)) :
                      r \in RandInt(0, rand_span(start_dt, latest))}
              ELSE {BlankText}
         ELSE {})

synth_withdrawn(p, signed_at, rate) ==
    IF p = "consents_synth"
    THEN make_participant_consent_row_withdrawn(signed_at, rate)
    ELSE make_row_withdrawn(signed_at, rate)

SynthProgs == {"consents_synth", "consents_synth_researchers"}

\* make_id pools of args.participants and args.versions fresh ids.
SynthPools ==
    {<<<<"p1">>, <<"v1">>>>, <<<<"p1", "p2">>, <<"v1">>>>,
     <<<<"p1">>, <<"v1", "v2">>>>, <<<<>>, <<"v1">>>>, <<<<"p1">>, <<>>>>}

InitConsentSynth ==
    /\ prog \in SynthProgs
    /\ pc = "loop"
    /\ n \in NValues
    /\ attempts = 0
    /\ rows = <<>>
    /\ used_pairs = {}
    /\ \E cfg \in SynthPools : participants = cfg[1] /\ versions = cfg[2]
    /\ consents_file = <<>>
    /\ allow_duplicates \in BOOLEAN
    /\ withdraw_rate \in WithdrawRates
    /\ EnrollIdle /\ PayIdle /\ SRIdle /\ SessIdle
    /\ NoFiles /\ NotWritten /\ NoRerun

\* One pass of the while-loop of main on a used pair: continue.
ConsentSynthReject ==
    /\ \E p \in SynthProgs : consent_looping(p)
    /\ \E i \in 1..Len(participants), j \in 1..Len(versions) :
         consent_pair_blocked(participants[i], versions[j])
    /\ attempts' = attempts + 1
    /\ UNCHANGED <<rows_again, ioVars, sessVars, prog, pc, n, rows, used_pairs, participants, enrollVars,
                   payVars, consentVars, srVars>>

\* A pass of the while-loop of main with an empty pool: random.choice
\* raises IndexError and the script stops without writing.
ConsentSynthError ==
    /\ \E p \in SynthProgs : consent_looping(p)
    /\ participants = <<>> \/ versions = <<>>
    /\ attempts' = attempts + 1
    /\ pc' = "error"
    /\ UNCHANGED <<rows_again, ioVars, sessVars, prog, n, rows, used_pairs, participants,
                   enrollVars, payVars, consentVars, srVars>>

\* One pass of the while-loop of main that appends a row.
ConsentSynthAccept ==
    /\ \E p \in SynthProgs : consent_looping(p)
    /\ \E i \in 1..Len(participants), j \in 1..Len(versions) :
         LET pid == participants[i]
             cvid == versions[j]
         IN  /\ ~consent_pair_blocked(pid, cvid)
             /\ \E signed_at \in synth_signed_at :
                \E withdrawn \in
                       synth_withdrawn(prog, signed_at, withdraw_rate) :
                  rows' = Append(rows,
                            [participant_id |-> pid,
                             consent_version_id |-> cvid,
                             signedAt |-> iso(signed_at),
                             withdrawnAt |-> withdrawn])
             /\ used_pairs' = used_pairs \cup {<<pid, cvid>>}
    /\ attempts' = attempts + 1
    /\ UNCHANGED <<rows_again, ioVars, sessVars, prog, pc, n, participants, enrollVars, payVars,
                   consentVars, srVars>>

\* The while-loop of main ends: the rows are written out.
ConsentSynthFinish ==
    /\ prog \in SynthProgs /\ pc = "loop"
    /\ ~(Len(rows) < n /\ attempts < consent_max_attempts)
    /\ pc' = "done"
    /\ outfile' = Some(rows)
    /\ UNCHANGED <<rows_again, fileVars, sessVars, prog, n, attempts, rows, used_pairs, participants,
                   enrollVars, payVars, consentVars, srVars>>

NextConsentSynth ==
    \/ ConsentSynthReject
    \/ ConsentSynthError
    \/ ConsentSynthAccept
    \/ ConsentSynthFinish

InitConsent == InitConsentFile \/ InitConsentSynth
NextConsent == NextConsentFile \/ NextConsentSynth
SpecConsent == InitConsent /\ [][NextConsent]_vars

(***************************************************************************)
(* Properties of the ParticipantConsent generators                         *)
(***************************************************************************)
row_signed(r) == The(parse_dt(r.signedAt))
row_withdrawn(r) == The(parse_dt(r.withdrawnAt))
is_withdrawn(r) == r.withdrawnAt # BlankText

\* The rows of the consent versions file with the id a row references.
file_versions_of(r) ==
    {f \in Range(consents_file) :
        f.consent_version_id = r.consent_version_id}

\* effectiveTo of a file row, or the end of the reference date when blank.
effective_to_or_today(f) == OrElse(parse_dt(f.effectiveTo), today_end)

\* C6: in the file-driven ParticipantConsent generator every row with a
\* non-empty withdrawnAt has withdrawnAt strictly after signedAt and no
\* later than the effectiveTo of its consent version (the end of the
\* reference date when effectiveTo is blank).
C6_WithdrawnAfterSignedWithinVersion ==
    prog = "consents_file" =>
        \A i \in 1..Len(rows) :
            is_withdrawn(rows[i]) =>
                \E f \in file_versions_of(rows[i]) :
                    /\ row_signed(rows[i]) < row_withdrawn(rows[i])
                    /\ row_withdrawn(rows[i]) <= effective_to_or_today(f)

\* What the file-driven generator keeps of C6: a written withdrawnAt is not
\* before the written signedAt and not after the effectiveTo of the
\* version. The two are equal when the version's window is shorter than a
\* second, since both are written without their fraction of a second.
C6_WithdrawnNotBeforeSignedWithinVersion ==
    prog = "consents_file" =>
        \A i \in 1..Len(rows) :
            is_withdrawn(rows[i]) =>
                \E f \in file_versions_of(rows[i]) :
                    /\ row_signed(rows[i]) <= row_withdrawn(rows[i])
                    /\ row_withdrawn(rows[i]) <= effective_to_or_today(f)

\* A row whose written withdrawnAt equals its written signedAt.
C6_WithdrawnEqualsSigned ==
    /\ prog = "consents_file"
    /\ \E i \in 1..Len(rows) :
         /\ is_withdrawn(rows[i])
         /\ row_withdrawn(rows[i]) = row_signed(rows[i])

\* A file row whose effectiveFrom is after the reference date.
version_is_future(f) ==
    parse_dt(f.effectiveFrom) # None
        /\ The(parse_dt(f.effectiveFrom)) > today_end

\* A file row whose effectiveTo is before its effectiveFrom.
version_is_empty(f) ==
    /\ parse_dt(f.effectiveFrom) # None /\ parse_dt(f.effectiveTo) # None
    /\ The(parse_dt(f.effectiveTo)) < The(parse_dt(f.effectiveFrom))

\* C7: in the file-driven ParticipantConsent generator every row's signedAt
\* lies in [effectiveFrom, min(effectiveTo, reference date)] of the version
\* it references; no row references a version whose effectiveFrom is after
\* the reference date, and a version whose window is empty (effectiveTo
\* before effectiveFrom) yields no row.
C7_SignedWithinWindow ==
    prog = "consents_file" =>
        \A i \in 1..Len(rows) :
            /\ \E f \in file_versions_of(rows[i]) :
                 /\ parse_dt(f.effectiveFrom) # None
                 /\ The(parse_dt(f.effectiveFrom)) <= row_signed(rows[i])
                 /\ row_signed(rows[i])
                        <= Min(effective_to_or_today(f), today_end)
            /\ \E f \in file_versions_of(rows[i]) :
                 ~version_is_future(f) /\ ~version_is_empty(f)

\* What the file-driven generator keeps of C7: a written signedAt is less
\* than a second before the effectiveFrom of its version (signedAt is
\* written without its fraction of a second) and not after
\* min(effectiveTo, reference date); future and empty versions yield no
\* row.
C7_SignedWithinWindowOfSeconds ==
    prog = "consents_file" =>
        \A i \in 1..Len(rows) :
            /\ \E f \in file_versions_of(rows[i]) :
                 /\ parse_dt(f.effectiveFrom) # None
                 /\ The(parse_dt(f.effectiveFrom))
                        < row_signed(rows[i]) + timedelta(0, 0, 0, 1)
                 /\ row_signed(rows[i])
                        <= Min(effective_to_or_today(f), today_end)
            /\ \E f \in file_versions_of(rows[i]) :
                 ~version_is_future(f) /\ ~version_is_empty(f)

\* A row whose written signedAt is before the effectiveFrom of every
\* version of the file with its id.
C7_SignedBeforeEffectiveFrom ==
    /\ prog = "consents_file"
    /\ \E i \in 1..Len(rows) :
         \A f \in file_versions_of(rows[i]) :
            /\ parse_dt(f.effectiveFrom) # None
            /\ row_signed(rows[i]) < The(parse_dt(f.effectiveFrom))

WithdrawWindow == timedelta(WITHDRAW_MAX_DAYS_AFTER_SIGN, 0, 0, 0)

\* C8 as stated: in every ParticipantConsent variant a generated
\* withdrawnAt lies in (signedAt, min(signedAt + 240 days,
\* effective-to-or-reference-date)].
C8_WithdrawnWithinMaxWindow ==
    /\ prog = "consents_file" =>
         \A i \in 1..Len(rows) :
            is_withdrawn(rows[i]) =>
                \E f \in file_versions_of(rows[i]) :
                    /\ row_signed(rows[i]) < row_withdrawn(rows[i])
                    /\ row_withdrawn(rows[i]) <=
                         Min(row_signed(rows[i]) + WithdrawWindow,
                             effective_to_or_today(f))
    /\ prog \in SynthProgs =>
         \A i \in 1..Len(rows) :
            is_withdrawn(rows[i]) =>
                /\ row_signed(rows[i]) < row_withdrawn(rows[i])
                /\ row_withdrawn(rows[i]) <=
                     Min(row_signed(rows[i]) + WithdrawWindow, today_end)

\* What the synthetic variants keep of C8: withdrawnAt is after signedAt
\* and never more than 240 days after it, and for a signedAt at least a
\* minute before the end of the reference date it is not after the end of
\* the reference date either.
C8_SynthWithdrawnWithinMaxWindowSignedEarlier ==
    prog \in SynthProgs =>
        \A i \in 1..Len(rows) :
            is_withdrawn(rows[i]) =>
                /\ row_signed(rows[i]) < row_withdrawn(rows[i])
                /\ row_withdrawn(rows[i]) <=
                     row_signed(rows[i]) + WithdrawWindow
                /\ row_signed(rows[i]) + timedelta(0, 0, 1, 0) <= today_end
                     => row_withdrawn(rows[i]) <= today_end

\* A file-driven row withdrawn more than 240 days after it was signed.
C8_FileWithdrawnPastMaxWindow ==
    /\ prog = "consents_file"
    /\ \E i \in 1..Len(rows) :
         /\ is_withdrawn(rows[i])
         /\ row_withdrawn(rows[i]) > row_signed(rows[i]) + WithdrawWindow

\* A synthetic row withdrawn exactly 240 days after it was signed.
C8_SynthWithdrawnAtMaxWindow ==
    /\ prog \in SynthProgs
    /\ \E i \in 1..Len(rows) :
         /\ is_withdrawn(rows[i])
         /\ row_withdrawn(rows[i]) = row_signed(rows[i]) + WithdrawWindow

(***************************************************************************)
(* generate_study_researchers.py                                           *)
(***************************************************************************)
COORD_CHOICES == <<0, 1, 2>>
COORD_WEIGHTS == <<60, 30, 10>>
RA_MIN_DEFAULT == 1
RA_MAX_DEFAULT == 3
TOPUP_ROLE_WEIGHTS == [RA |-> 80, coordinator |-> 15, PI |-> 5]

\* The list comprehension of pick_unique: researchers outside forbid, in
\* order, a repeated id kept as often as it is listed.
unforbidden(rs, forbid) ==
    LET keep(rid) == rid \notin forbid
    IN  SelectSeq(rs, keep)

\* A pick_unique that does not filter by forbid.
pick_unique_unfiltered(rs, forbid, k) ==
    LET m == Min(k, Len(rs))
    IN  {[i \in 1..m |-> rs[f[i]]] :
            f \in {g \in [1..m -> 1..Len(rs)] :
                     \A a, b \in 1..m : a # b => g[a] # g[b]}}

\* pick_unique: the lists it can return, the first k entries of a shuffle
\* of the researchers outside forbid.
pick_unique(rs, forbid, k) ==
    LET cs == unforbidden(rs, forbid)
        m == Min(k, Len(cs))
    IN  {[i \in 1..m |-> cs[f[i]]] :
            f \in {g \in [1..m -> 1..Len(cs)] :
                     \A a, b \in 1..m : a # b => g[a] # g[b]}}

role_rows(sid, rids, role) ==
    [i \in 1..Len(rids) |->
        [study_id |-> sid, researcher_id |-> rids[i], role |-> role]]

\* A baseline that asks for pi_per_study PIs, none when it is 0.
pi_count_unguarded(pi_per_study) == pi_per_study

\* The number of PIs the baseline asks pick_unique for.
pi_count(pi_per_study) == Max(1, pi_per_study)

\* The rows baseline_assignments can append for one study.
baseline_rows_for(sid, rs, args) ==
    {role_rows(sid, pis, "PI") \o role_rows(sid, coords, "coordinator")
        \o role_rows(sid, ras, "RA") :
        <<pis, coords, ras>> \in
            {t \in UNION {UNION {
                {<<p, c, r>> :
                    r \in UNION {pick_unique(rs, Range(p) \cup Range(c), k_ra) :
                                   k_ra \in RandInt(args.ra_min, args.ra_max)}} :
                c \in UNION {pick_unique(rs, Range(p), k_coord) :
                               k_coord \in choices(COORD_CHOICES,
                                                   COORD_WEIGHTS)}} :
                p \in pick_unique(rs, {}, pi_count(args.pi_per_study))} :
             TRUE}}

\* The guardrails of main on --pi-per-study, --ra-min and --ra-max.
guardrails(a) ==
    LET pi == IF a.pi_per_study < 1 THEN 1 ELSE a.pi_per_study
        lo == IF a.ra_min < 0 THEN 0 ELSE a.ra_min
        hi == IF a.ra_max < lo THEN Max(lo, 1) ELSE a.ra_max
    IN  [pi_per_study |-> pi, ra_min |-> lo, ra_max |-> hi]

SRArg(pi, lo, hi) == [pi_per_study |-> pi, ra_min |-> lo, ra_max |-> hi]

\* The command lines the script is run with.
SRArgs ==
    {SRArg(1, RA_MIN_DEFAULT, RA_MAX_DEFAULT), SRArg(1, 0, 0),
     SRArg(0, 0, 1), SRArg(2, -1, -2)}

\* <<studies, researchers>>.  A pool read from a file may list an id
\* twice; a synthesized pool has --study-pool or --researcher-pool ids.
SRPools ==
    {<<<<"st1">>, rs>> :
        rs \in {<<>>, <<"r1">>, <<"r1", "r2">>, <<"r1", "r1">>,
                <<"r1", "r2", "r3">>}}
    \cup
    {<<<<"st1", "st2">>, <<"r1", "r2">>>>,
     <<<<"st1", "st1">>, <<"r1">>>>,
     <<<<"st1", "st1">>, <<"r1", "r2">>>>,
     <<<<"st1", "st2">>, <<>>>>,
     <<<<>>, <<"r1">>>>}

InitSR ==
    /\ prog = "study_researchers"
    /\ pc = "baseline"
    /\ n \in 0..(MaxN + 1)
    /\ attempts = 0
    /\ rows = <<>>
    /\ used_pairs = {}
    /\ participants = <<>>
    /\ \E cfg \in SRPools : studies = cfg[1] /\ researchers = cfg[2]
    /\ \E a \in SRArgs : sr_args = guardrails(a)
    /\ study_idx = 0
    /\ max_attempts = 0
    /\ EnrollIdle /\ PayIdle /\ ConsentIdle /\ SessIdle
    /\ NoFiles /\ NotWritten /\ NoRerun

\* One pass of the for-loop of baseline_assignments.
SRBaselineStudy ==
    /\ prog = "study_researchers" /\ pc = "baseline"
    /\ study_idx < Len(studies)
    /\ \E new \in baseline_rows_for(studies[study_idx + 1], researchers,
                                    sr_args) :
         rows' = rows \o new
    /\ study_idx' = study_idx + 1
    /\ UNCHANGED <<rows_again, ioVars, sessVars, prog, pc, n, attempts, used_pairs, participants,
                   enrollVars, payVars, consentVars, studies, researchers,
                   sr_args, max_attempts>>

\* main calls top_up_to_target when --n is set and exceeds the baseline.
topup_wanted == n # 0 /\ Len(rows) < n /\ ~(n <= 0 \/ Len(rows) >= n)

\* baseline_assignments returns and the top-up starts.
SRStartTopUp ==
    /\ prog = "study_researchers" /\ pc = "baseline"
    /\ study_idx = Len(studies)
    /\ topup_wanted
    /\ pc' = "loop"
    /\ used_pairs' =
         {<<rows[i].study_id, rows[i].researcher_id>> : i \in 1..Len(rows)}
    /\ attempts' = 0
    /\ max_attempts' = (n - Len(rows)) * 20
    /\ UNCHANGED <<rows_again, ioVars, sessVars, prog, n, rows, participants, enrollVars, payVars,
                   consentVars, studies, researchers, sr_args, study_idx>>

\* baseline_assignments returns and no top-up is needed.
SRSkipTopUp ==
    /\ prog = "study_researchers" /\ pc = "baseline"
    /\ study_idx = Len(studies)
    /\ ~topup_wanted
    /\ pc' = "done"
    /\ outfile' = Some(rows)
    /\ UNCHANGED <<rows_again, fileVars, sessVars, prog, n, attempts, rows, used_pairs, participants,
                   enrollVars, payVars, consentVars, srVars>>

sr_looping ==
    /\ prog = "study_researchers" /\ pc = "loop"
    /\ Len(rows) < n /\ attempts < max_attempts

\* random.choice on an empty pool raises IndexError.
SRTopUpError ==
    /\ sr_looping
    /\ studies = <<>> \/ researchers = <<>>
    /\ pc' = "error"
    /\ attempts' = attempts + 1
    /\ UNCHANGED <<rows_again, ioVars, sessVars, prog, n, rows, used_pairs, participants, enrollVars,
                   payVars, consentVars, srVars>>

\* One pass of the while-loop of top_up_to_target on a used pair.
SRTopUpReject ==
    /\ sr_looping
    /\ \E i \in 1..Len(studies), j \in 1..Len(researchers) :
         <<studies[i], researchers[j]>> \in used_pairs
    /\ attempts' = attempts + 1
    /\ UNCHANGED <<rows_again, ioVars, sessVars, prog, pc, n, rows, used_pairs, participants, enrollVars,
                   payVars, consentVars, srVars>>

\* One pass of the while-loop of top_up_to_target that appends a row.
SRTopUpAccept ==
    /\ sr_looping
    /\ \E i \in 1..Len(studies), j \in 1..Len(researchers) :
         /\ <<studies[i], researchers[j]>> \notin used_pairs
         /\ \E role \in pick_weighted(TOPUP_ROLE_WEIGHTS) :
              rows' = Append(rows, [study_id |-> studies[i],
                                    researcher_id |-> researchers[j],
                                    role |-> role])
         /\ used_pairs' = used_pairs \cup {<<studies[i], researchers[j]>>}
    /\ attempts' = attempts + 1
    /\ UNCHANGED <<rows_again, ioVars, sessVars, prog, pc, n, participants, enrollVars, payVars,
                   consentVars, srVars>>

\* The while-loop of top_up_to_target ends: main writes the rows out.
SRTopUpFinish ==
    /\ prog = "study_researchers" /\ pc = "loop"
    /\ ~(Len(rows) < n /\ attempts < max_attempts)
    /\ pc' = "done"
    /\ outfile' = Some(rows)
    /\ UNCHANGED <<rows_again, fileVars, sessVars, prog, n, attempts, rows, used_pairs, participants,
                   enrollVars, payVars, consentVars, srVars>>

NextSR ==
    SRBaselineStudy \/ SRStartTopUp \/ SRSkipTopUp \/ SRTopUpError
        \/ SRTopUpReject \/ SRTopUpAccept \/ SRTopUpFinish

SpecSR == InitSR /\ [][NextSR]_vars

(***************************************************************************)
(* Properties of generate_study_researchers.py                             *)
(***************************************************************************)
has_pi(sid) ==
    \E i \in 1..Len(rows) : rows[i].study_id = sid /\ rows[i].role = "PI"

\* C9: in the StudyResearcher generator, for every study id of the study
\* pool the output holds at least one row with role PI for that study,
\* after the baseline assignment and after any top-up.
C9_EveryStudyHasPI ==
    (prog = "study_researchers" /\ pc \in {"loop", "done"}) =>
        \A sid \in Range(studies) : has_pi(sid)

\* C9 holds for every researcher pool that is not empty.
C9_EveryStudyHasPIGivenResearchers ==
    (prog = "study_researchers" /\ pc \in {"loop", "done"}
        /\ researchers # <<>>) =>
        \A sid \in Range(studies) : has_pi(sid)

(***************************************************************************)
(* generate_sessions.py                                                    *)
(***************************************************************************)
DAYS_PAST == 10
DAYS_FUTURE == 60
START_HOUR_MIN == 8
START_HOUR_MAX == 19
DURATION_MIN == 45
DURATION_MAX == 120
ROOM_CAP_FALLBACK == <<18, 60>>

\* random_start_dt, for the drawn day offset, hour and minute.
random_start_dt(day_offset, hour, minute) ==
    today_start + timedelta(day_offset, hour, minute, 0)

\* The (day offset, hour, minute) draws of random_start_dt that the model
\* takes: the earliest slot, the slot 45 minutes after it and the latest.
StartDraws ==
    {d \in {<<-DAYS_PAST, START_HOUR_MIN, 0>>,
            <<-DAYS_PAST, START_HOUR_MIN, 45>>,
            <<DAYS_FUTURE, START_HOUR_MAX, 45>>} :
        /\ -DAYS_PAST <= d[1] /\ d[1] <= DAYS_FUTURE
        /\ START_HOUR_MIN <= d[2] /\ d[2] <= START_HOUR_MAX
        /\ d[3] \in {0, 15, 30, 45}}

\* The durations, in minutes, that the model draws.
DurationDraws == {DURATION_MIN, DURATION_MAX}

\* Intervals that only touch count as overlapping.
overlaps_touching(a_start, a_end, b_start, b_end) ==
    ~(a_end < b_start \/ b_end < a_start)

overlaps(a_start, a_end, b_start, b_end) ==
    ~(a_end <= b_start \/ b_end <= a_start)

\* all(not overlaps(start, end, s, e) for (s, e) in existing)
no_overlap(start, end, existing) ==
    \A i \in 1..Len(existing) :
        ~overlaps(start, end, existing[i][1], existing[i][2])

\* The number of candidates pick_times_for_room draws at most.
PICK_TRIES == 20

\* A room: its id and its capacity, None when the file gives no integer.
Room(id, cap) == [room_id |-> id, capacity |-> cap]

\* room.get("capacity") is truthy
room_has_capacity(room) ==
    room.capacity # None /\ The(room.capacity) # 0

\* The capacities make_row can draw for a session in the room.
session_capacities(room) ==
    IF room_has_capacity(room)
    THEN LET cap_hi == Max(2, The(room.capacity))
         IN  RandInt(Max(2, Min(6, cap_hi)), cap_hi)
    ELSE RandInt(ROOM_CAP_FALLBACK[1], ROOM_CAP_FALLBACK[2])

\* room_schedules.get(rid, [])
schedule_of(rs, rid) == IF rid \in DOMAIN rs THEN rs[rid] ELSE <<>>

\* room_schedules with the interval appended to the list of rid.
schedule_append(rs, rid, interval) ==
    [x \in DOMAIN rs \cup {rid} |->
        IF x = rid THEN Append(schedule_of(rs, rid), interval) ELSE rs[x]]

session_row(study_id, room, start, end, capacity) ==
    [study_id |-> study_id, room_id |-> room.room_id,
     startTs |-> iso(start), endTs |-> iso(end), capacity |-> capacity]

\* The (study ids, rooms) pools of the model: rooms with a capacity above,
\* at and below the floor of 2, with none, with 0 and a negative one, and
\* two rooms.
SessPools ==
    { <<<<"st1">>, <<Room("r1", Some(20))>>>>,
      <<<<"st1">>, <<Room("r1", None)>>>>,
      <<<<"st1">>, <<Room("r1", Some(1))>>>>,
      <<<<"st1">>, <<Room("r1", Some(0))>>>>,
      <<<<"st1">>, <<Room("r1", Some(-3))>>>>,
      <<<<"st1", "st2">>, <<Room("r1", Some(5)), Room("r2", Some(2))>>>> }

InitSess ==
    /\ prog = "sessions"
    /\ pc = "rows"
    /\ n \in NValues
    /\ attempts = 0
    /\ rows = <<>>
    /\ used_pairs = {}
    /\ participants = <<>>
    /\ \E cfg \in SessPools : study_ids = cfg[1] /\ rooms = cfg[2]
    /\ room_schedules = <<>>
    /\ cur = <<>>
    /\ tries = 0
    /\ picked = <<>>
    /\ EnrollIdle /\ PayIdle /\ ConsentIdle /\ SRIdle
    /\ NoFiles /\ NotWritten /\ NoRerun

\* main's loop body up to the call of pick_times_for_room: the study and
\* the room are chosen, the room's schedule is created if missing.
SessChoose ==
    /\ prog = "sessions" /\ pc = "rows"
    /\ Len(rows) < n
    /\ \E i \in 1..Len(study_ids), j \in 1..Len(rooms) :
         /\ cur' = [study_id |-> study_ids[i], room |-> rooms[j]]
         /\ room_schedules' =
              [x \in DOMAIN room_schedules \cup {rooms[j].room_id} |->
                  schedule_of(room_schedules, x)]
    /\ tries' = 0
    /\ picked' = <<>>
    /\ pc' = "pick"
    /\ UNCHANGED <<rows_again, ioVars, prog, n, attempts, rows, used_pairs, participants,
                   study_ids, rooms,
                   enrollVars, payVars, consentVars, srVars>>

\* One pass of pick_times_for_room whose candidate overlaps and is not the
\* last one.
SessRetry ==
    /\ prog = "sessions" /\ pc = "pick"
    /\ tries + 1 < PICK_TRIES
    /\ \E d \in StartDraws, duration \in DurationDraws :
         LET start == random_start_dt(d[1], d[2], d[3])
             end == start + timedelta(0, 0, duration, 0)
         IN  /\ ~no_overlap(start, end,
                            schedule_of(room_schedules, cur.room.room_id))
             /\ picked' = <<start, end>>
    /\ tries' = tries + 1
    /\ UNCHANGED <<rows_again, ioVars, prog, pc, n, attempts, rows, used_pairs, participants,
                   study_ids, rooms, room_schedules, cur,
                   enrollVars, payVars, consentVars, srVars>>

\* The rest of make_row once pick_times_for_room has returned (start, end).
SessStore(start, end) ==
    /\ room_schedules' =
         schedule_append(room_schedules, cur.room.room_id, <<start, end>>)
    /\ \E capacity \in session_capacities(cur.room) :
         rows' = Append(rows,
                        session_row(cur.study_id, cur.room, start, end,
                                    capacity))
    /\ cur' = <<>>
    /\ tries' = 0
    /\ picked' = <<>>
    /\ pc' = "rows"
    /\ UNCHANGED <<rows_again, ioVars, prog, n, attempts, used_pairs, participants,
                   study_ids, rooms,
                   enrollVars, payVars, consentVars, srVars>>

\* A pass of pick_times_for_room whose candidate overlaps nothing: it is
\* returned and the row is made.
SessPlace ==
    /\ prog = "sessions" /\ pc = "pick"
    /\ tries < PICK_TRIES
    /\ \E d \in StartDraws, duration \in DurationDraws :
         LET start == random_start_dt(d[1], d[2], d[3])
             end == start + timedelta(0, 0, duration, 0)
         IN  /\ no_overlap(start, end,
                           schedule_of(room_schedules, cur.room.room_id))
             /\ SessStore(start, end)

\* The last pass of pick_times_for_room with a candidate that overlaps: the
\* loop ends and the candidate is returned all the same.
SessFallback ==
    /\ prog = "sessions" /\ pc = "pick"
    /\ tries + 1 = PICK_TRIES
    /\ \E d \in StartDraws, duration \in DurationDraws :
         LET start == random_start_dt(d[1], d[2], d[3])
             end == start + timedelta(0, 0, duration, 0)
         IN  /\ ~no_overlap(start, end,
                            schedule_of(room_schedules, cur.room.room_id))
             /\ SessStore(start, end)

SessFinish ==
    /\ prog = "sessions" /\ pc = "rows"
    /\ Len(rows) >= n
    /\ pc' = "done"
    /\ outfile' = Some(rows)
    /\ UNCHANGED <<rows_again, fileVars, sessVars, prog, n, attempts, rows, used_pairs,
                   participants, enrollVars, payVars, consentVars, srVars>>

NextSess ==
    \/ SessChoose
    \/ SessRetry
    \/ SessPlace
    \/ SessFallback
    \/ SessFinish

SpecSess == InitSess /\ [][NextSess]_vars

(***************************************************************************)
(* generate_participants.py, run twice with the same seed and flags.  The  *)
(* draws of the random module are fixed by the seed, so the two runs take  *)
(* the same ones; uuid.uuid4 reads the operating system's entropy, so each *)
(* run takes its own.  Of a row the model keeps the id, the status and the *)
(* two timestamps.                                                         *)
(***************************************************************************)
STATUSES == <<"active", "paused", "ineligible", "banned">>
PAYLOAD_STATUS_WEIGHTS == <<78, 12, 8, 2>>

\* The values uuid.uuid4 can return in the model.
UuidDraws == {"u1", "u2", "u3"}

\* The ends of the range of random.randint(lo, hi).
RandEnds(lo, hi) == {x \in {lo, hi} : lo <= x /\ x <= hi}

\* rand_ts_between(days_back), for the drawn seconds_back.
rand_ts_between(seconds_back) ==
    iso(today_start + timedelta(0, 0, 0, seconds_back))

\* The seconds_back that rand_ts_between(days_back) can draw.
seconds_back_draws(days_back) == RandEnds(0, days_back * 24 * 3600)

\* The (days, seconds) that updated_at can be drawn after created_at: the
\* least and the greatest.
updated_after_draws ==
    {<<d, x>> \in RandEnds(0, 120) \X RandEnds(0, 86400) :
        (d = 0) <=> (x = 0)}

\* make_participant_row for the uuid and the seeded draws.
make_participant_row(pid, status, seconds_back, days, seconds) ==
    LET created_at == rand_ts_between(seconds_back)
        updated_at == The(parse_dt(created_at))
                          + timedelta(days, 0, 0, seconds)
    IN  [participant_id |-> pid,
         status |-> status,
         created_at |-> created_at,
         updated_at |-> iso(updated_at)]

\* str.lower() on the outfile suffixes of the model.
lower_suffix(suffix) ==
    CASE suffix = ".JSON" -> ".json"
      [] suffix = ".CSV" -> ".csv"
      [] OTHER -> suffix

\* args.json_out or args.outfile.lower().endswith(".json")
writes_json(args) == args.json_out \/ lower_suffix(args.suffix) = ".json"

\* The output flags the script is run with: --json or not, and the suffix
\* of --outfile.
ParticipantsWriteArgs ==
    {[json_out |-> FALSE, suffix |-> ".csv"],
     [json_out |-> TRUE, suffix |-> ".csv"],
     [json_out |-> FALSE, suffix |-> ".JSON"]}

\* The ids of the rows.
ids_of(rs) == {rs[i].participant_id : i \in 1..Len(rs)}

InitParticipants ==
    /\ prog = "participants"
    /\ pc = "rows"
    /\ n \in NValues
    /\ attempts = 0
    /\ rows = <<>>
    /\ rows_again = <<>>
    /\ used_pairs = {}
    /\ participants = <<>>
    /\ EnrollIdle /\ PayIdle /\ ConsentIdle /\ SRIdle /\ SessIdle
    /\ participants_file = <<>> /\ consents_head = <<>>
    /\ write_args \in ParticipantsWriteArgs
    /\ NotWritten

\* One row of the list built by main, in both runs: the same seeded draws,
\* a uuid4 of its own for each run.
ParticipantsRow ==
    /\ prog = "participants" /\ pc = "rows"
    /\ Len(rows) < n
    /\ \E status \in choices(STATUSES, PAYLOAD_STATUS_WEIGHTS) :
       \E seconds_back \in seconds_back_draws(365) :
       \E after \in updated_after_draws :
       \E pid \in UuidDraws \ ids_of(rows) :
       \E pid_again \in UuidDraws \ ids_of(rows_again) :
         /\ rows' = Append(rows,
                       make_participant_row(pid, status, seconds_back,
                                            after[1], after[2]))
         /\ rows_again' = Append(rows_again,
                             make_participant_row(pid_again, status,
                                                  seconds_back, after[1],
                                                  after[2]))
    /\ UNCHANGED <<ioVars, sessVars, prog, pc, n, attempts, used_pairs,
                   participants, enrollVars, payVars, consentVars, srVars>>

\* The rows are written out: as JSON, or as CSV with the keys of the first
\* row as header.
ParticipantsFinish ==
    /\ prog = "participants" /\ pc = "rows"
    /\ Len(rows) >= n
    /\ writes_json(write_args) \/ rows # <<>>
    /\ pc' = "done"
    /\ outfile' = Some(rows)
    /\ UNCHANGED <<rows_again, fileVars, sessVars, prog, n, attempts, rows,
                   used_pairs, participants, enrollVars, payVars,
                   consentVars, srVars>>

\* On the CSV branch with no rows the header cannot be taken from
\* rows[0]: IndexError.
ParticipantsError ==
    /\ prog = "participants" /\ pc = "rows"
    /\ Len(rows) >= n
    /\ ~writes_json(write_args) /\ rows = <<>>
    /\ pc' = "error"
    /\ UNCHANGED <<rows_again, ioVars, sessVars, prog, n, attempts, rows,
                   used_pairs, participants, enrollVars, payVars,
                   consentVars, srVars>>

NextParticipants ==
    \/ ParticipantsRow
    \/ ParticipantsFinish
    \/ ParticipantsError

SpecParticipants == InitParticipants /\ [][NextParticipants]_vars

(***************************************************************************)
(* generate_rooms.py.  A text is the sequence of its characters.           *)
(***************************************************************************)
BUILDINGS ==
    <<"Engineering Center", "Science Hall", "Computer Science Building",
      "Chemistry Complex", "Physics Pavilion", "Biology Annex",
      "Mathematics Tower", "Business Center", "Humanities Hall",
      "Library West", "Art & Design Studios", "Music & Performing Arts",
      "Psychology Building", "Health Sciences Center", "Education Hall",
      "Athletics Complex", "Innovation Hub", "Data Science Institute",
      "Law School", "Medical Research Building">>

ROOM_TYPES ==
    <<"lecture", "lecture", "lecture", "lab", "lab", "lab",
      "seminar", "seminar", "studio", "room", "room">>

LETTERS ==
    <<"A", "B", "C", "D", "E", "F", "G", "H", "J", "K", "M",
      "N", "P", "Q", "R", "S", "T", "U", "V", "W", "X", "Z">>

DecimalDigits == <<"0", "1", "2", "3", "4", "5", "6", "7", "8", "9">>

\* The decimal text of a natural number: f"{k}".
RECURSIVE decimal(_)
decimal(k) ==
    IF k < 10 THEN <<DecimalDigits[k + 1]>>
    ELSE decimal(k \div 10) \o <<DecimalDigits[(k % 10) + 1]>>

\* f"{k:02d}"
decimal_02d(k) == IF k < 10 THEN <<"0">> \o decimal(k) ELSE decimal(k)

LectureHallText ==
    <<"L", "e", "c", "t", "u", "r", "e", " ", "H", "a", "l", "l", " ">>
LabText == <<"L", "a", "b", " ">>
SeminarText == <<"S", "e", "m", "i", "n", "a", "r", " ">>
StudioText == <<"S", "t", "u", "d", "i", "o", " ">>

\* The draws of one call of pick_room_name: the numbers and the letter.
NameDraw(num, letter, floor) ==
    [num |-> num, letter |-> letter, floor |-> floor]

\* The draws pick_room_name can make for the type; letter is <<>> when the
\* lab name gets no letter.
name_draws(rtype) ==
    CASE rtype = "lecture" -> {NameDraw(1, <<>>, 0)}
      [] rtype = "lab" ->
           {NameDraw(1, l, 0) : l \in {<<>>, <<LETTERS[1]>>}}
      [] rtype = "seminar" -> {NameDraw(100, <<>>, 0)}
      [] rtype = "studio" -> {NameDraw(20, <<LETTERS[Len(LETTERS)]>>, 0)}
      [] OTHER -> {NameDraw(8, <<>>, 3)}

pick_room_name(rtype, d) ==
    CASE rtype = "lecture" -> LectureHallText \o decimal(d.num)
      [] rtype = "lab" -> (LabText \o decimal(d.num)) \o d.letter
      [] rtype = "seminar" -> SeminarText \o decimal(d.num)
      [] rtype = "studio" ->
           ((StudioText \o d.letter) \o <<"-">>) \o decimal(d.num)
      [] OTHER -> (decimal(d.floor) \o <<"-">>) \o decimal_02d(d.num)

\* The capacities pick_capacity can return for the type.
pick_capacity(rtype) ==
    CASE rtype = "lecture" -> {80}
      [] rtype = "lab" -> {12}
      [] rtype = "seminar" -> {24}
      [] rtype = "studio" -> {35}
      [] OTHER -> {18}

\* The buildings, room types and suffixes the checked runs draw.
BuildingDraws == {BUILDINGS[2], BUILDINGS[19]}
RoomTypeDraws == Range(ROOM_TYPES)
SuffixDraws == {1000}

\* The names one pass of the for-loop of make_row can draw.
drawn_names ==
    UNION {{pick_room_name(rtype, d) : d \in name_draws(rtype)} :
              rtype \in RoomTypeDraws}

NAME_TRIES == 20

room_row(name, building, capacity) ==
    [name |-> name, building |-> building, capacity |-> capacity]

\* A fallback that appends nothing to the drawn name.
fallback_name_plain(name, suffix) == name

\* name = f"{pick_room_name(rtype)}-{suffix}"
fallback_name(name, suffix) == (name \o <<"-">>) \o decimal(suffix)

InitRooms ==
    /\ prog = "rooms"
    /\ pc = "rows"
    /\ n \in 0..(MaxN + 1)
    /\ attempts = 0
    /\ rows = <<>>
    /\ used_pairs = {}
    /\ participants = <<>>
    /\ EnrollIdle /\ PayIdle /\ ConsentIdle /\ SRIdle /\ SessIdle
    /\ NoFiles /\ NotWritten /\ NoRerun

\* make_row returns from inside its for-loop: one of the NAME_TRIES draws
\* gave a name the building does not have yet.
RoomsRow ==
    /\ prog = "rooms" /\ pc = "rows"
    /\ Len(rows) < n
    /\ NAME_TRIES > 0
    /\ \E building \in BuildingDraws :
       \E rtype \in RoomTypeDraws :
       \E d \in name_draws(rtype) :
       \E capacity \in pick_capacity(rtype) :
         LET name == pick_room_name(rtype, d)
         IN  /\ <<building, name>> \notin used_pairs
             /\ used_pairs' = used_pairs \cup {<<building, name>>}
             /\ rows' = Append(rows, room_row(name, building, capacity))
    /\ UNCHANGED <<rows_again, ioVars, sessVars, prog, pc, n, attempts,
                   participants, enrollVars, payVars, consentVars, srVars>>

\* make_row leaves its for-loop: every one of the NAME_TRIES draws gave a
\* name the building has already, and the name drawn next gets a suffix.
RoomsRowFallback ==
    /\ prog = "rooms" /\ pc = "rows"
    /\ Len(rows) < n
    /\ \E building \in BuildingDraws :
         /\ NAME_TRIES > 0 =>
              \E name \in drawn_names : <<building, name>> \in used_pairs
         /\ \E suffix \in SuffixDraws :
            \E rtype \in RoomTypeDraws :
            \E d \in name_draws(rtype) :
            \E capacity \in pick_capacity(rtype) :
              LET name == fallback_name(pick_room_name(rtype, d), suffix)
              IN  /\ used_pairs' = used_pairs \cup {<<building, name>>}
                  /\ rows' = Append(rows,
                                    room_row(name, building, capacity))
    /\ UNCHANGED <<rows_again, ioVars, sessVars, prog, pc, n, attempts,
                   participants, enrollVars, payVars, consentVars, srVars>>

\* The for-loop of main ends: the rows are written out.
RoomsFinish ==
    /\ prog = "rooms" /\ pc = "rows"
    /\ Len(rows) >= n
    /\ pc' = "done"
    /\ outfile' = Some(rows)
    /\ UNCHANGED <<rows_again, fileVars, sessVars, prog, n, attempts, rows,
                   used_pairs, participants, enrollVars, payVars,
                   consentVars, srVars>>

NextRooms == RoomsRow \/ RoomsRowFallback \/ RoomsFinish

SpecRooms == InitRooms /\ [][NextRooms]_vars

(***************************************************************************)
(* generate_studies.py.  Of a row the model keeps the id and the two       *)
(* timestamps.                                                             *)
(***************************************************************************)
\* rand_ts_between(days_back) of generate_studies.py, for the drawn
\* seconds_back: a datetime.
study_rand_ts_between(seconds_back) ==
    today_start + timedelta(0, 0, 0, seconds_back)

\* A rand_ts_between that counts the drawn seconds back from the reference
\* date.
study_rand_ts_before(seconds_back) ==
    today_start - timedelta(0, 0, 0, seconds_back)

\* The (days, seconds) that make_row can draw for updated_at: the least
\* and the greatest.
study_updated_after_draws ==
    {<<d, x>> \in RandEnds(0, 180) \X RandEnds(0, 86400) :
        (d = 0) <=> (x = 0)}

\* make_row of generate_studies.py for the uuid and the seeded draws.
make_study_row(sid, seconds_back, days, seconds) ==
    LET created_at == study_rand_ts_between(seconds_back)
        updated_at == created_at + timedelta(days, 0, 0, seconds)
    IN  [study_id |-> sid,
         created_at |-> iso(created_at),
         updated_at |-> iso(updated_at)]

InitStudies ==
    /\ prog = "studies"
    /\ pc = "rows"
    /\ n \in NValues
    /\ attempts = 0
    /\ rows = <<>>
    /\ used_pairs = {}
    /\ participants = <<>>
    /\ EnrollIdle /\ PayIdle /\ ConsentIdle /\ SRIdle /\ SessIdle
    /\ NoFiles /\ NotWritten /\ NoRerun

\* One row of the list built by main.
StudiesRow ==
    /\ prog = "studies" /\ pc = "rows"
    /\ Len(rows) < n
    /\ \E sid \in UuidDraws :
       \E seconds_back \in seconds_back_draws(540) :
       \E after \in study_updated_after_draws :
         rows' = Append(rows, make_study_row(sid, seconds_back,
                                             after[1], after[2]))
    /\ UNCHANGED <<rows_again, ioVars, sessVars, prog, pc, n, attempts,
                   used_pairs, participants, enrollVars, payVars,
                   consentVars, srVars>>

\* The rows are written out.
StudiesFinish ==
    /\ prog = "studies" /\ pc = "rows"
    /\ Len(rows) >= n
    /\ pc' = "done"
    /\ outfile' = Some(rows)
    /\ UNCHANGED <<rows_again, fileVars, sessVars, prog, n, attempts, rows,
                   used_pairs, participants, enrollVars, payVars,
                   consentVars, srVars>>

NextStudies == StudiesRow \/ StudiesFinish

SpecStudies == InitStudies /\ [][NextStudies]_vars

\* The two scripts that stamp their rows with created_at and updated_at
\* drawn by rand_ts_between.
InitStamped == InitParticipants \/ InitStudies
NextStamped == NextParticipants \/ NextStudies
SpecStamped == InitStamped /\ [][NextStamped]_vars

(***************************************************************************)
(* Any of the scripts.                                                     *)
(***************************************************************************)
Init ==
    \/ InitEnroll \/ InitPay \/ InitConsent \/ InitSR \/ InitSess
    \/ InitParticipants \/ InitRooms \/ InitStudies
Next ==
    \/ NextEnroll \/ NextPay \/ NextConsent \/ NextSR \/ NextSess
    \/ NextParticipants \/ NextRooms \/ NextStudies
Spec == Init /\ [][Next]_vars

(***************************************************************************)
(* Properties of the pairing loops                                         *)
(***************************************************************************)
\* The pools the running script draws its pairs from.
left_pool ==
    CASE prog = "payments" -> enrollments
      [] prog = "study_researchers" -> studies
      [] OTHER -> participants
right_pool ==
    CASE prog = "enrollments" -> sessions
      [] prog = "payments" -> enrollments
      [] prog = "study_researchers" -> researchers
      [] OTHER -> versions

\* The distinct pairs the pools of the running script can supply.
pool_pairs ==
    CASE prog = "enrollments" ->
           {<<participants[i], sessions[j].session_id>> :
               i \in 1..Len(participants), j \in 1..Len(sessions)}
      [] prog = "payments" ->
           {<<enrollments[i].participant_id, enrollments[i].session_id>> :
               i \in 1..Len(enrollments)}
      [] prog = "consents_file" ->
           {<<participants[i], versions[j].consent_version_id>> :
               i \in 1..Len(participants), j \in 1..Len(versions)}
      [] prog \in SynthProgs ->
           {<<participants[i], versions[j]>> :
               i \in 1..Len(participants), j \in 1..Len(versions)}
      [] OTHER ->
           {<<studies[i], researchers[j]>> :
               i \in 1..Len(studies), j \in 1..Len(researchers)}

\* The pools are too small to supply n distinct pairs.
pool_too_small == Cardinality(pool_pairs) < n

\* The attempts cap of the running script's loop; rows0 is the number of
\* rows before the loop.
attempts_cap(rows0) ==
    CASE prog = "enrollments" -> 15 * n
      [] prog = "study_researchers" -> 20 * (n - rows0)
      [] OTHER -> 10 * n

\* The loop of the running script has run.
after_loop == pc = "done" /\ (prog = "study_researchers" => max_attempts > 0)

\* The cap the running script tests its attempts against.
max_attempts_of_run ==
    CASE prog = "enrollments" -> enroll_max_attempts
      [] prog = "payments" -> pay_max_attempts
      [] prog = "study_researchers" -> max_attempts
      [] OTHER -> consent_max_attempts

\* C10: every uniqueness-guarded pairing loop (enrollments: cap 15 n;
\* payments and consents: cap 10 n; study-researcher top-up: cap
\* 20 (n - baseline)) ends after at most its cap of attempts for any
\* non-empty pools: every pass of the loop counts one attempt and adds at
\* most one row, the count never passes the cap, a pass is always possible
\* until the loop ends, no error is raised, the rows never number more than
\* n, and with pools too small for n distinct pairs the loop ends with
\* fewer than n rows.
C10_BoundedPairingLoops ==
    /\ []((left_pool # <<>> /\ right_pool # <<>>) =>
            /\ pc # "error"
            /\ pc = "loop" =>
                 /\ Len(rows) <= n
                 /\ prog # "study_researchers" => attempts <= attempts_cap(0)
                 /\ ENABLED Next
            /\ after_loop =>
                 /\ Len(rows) <= n
                 /\ prog # "study_researchers" => attempts <= attempts_cap(0)
                 /\ (~allow_duplicates /\ pool_too_small) => Len(rows) < n)
    /\ [][(left_pool # <<>> /\ right_pool # <<>>) =>
            /\ (pc = "loop" /\ pc' = "loop") =>
                 /\ attempts' = attempts + 1
                 /\ Len(rows') \in {Len(rows), Len(rows) + 1}
            /\ (pc = "baseline" /\ pc' = "loop") =>
                 /\ attempts' = 0
                 /\ max_attempts' = attempts_cap(Len(rows))
            /\ (prog = "study_researchers" /\ pc' \in {"loop", "done"}) =>
                 attempts' <= max_attempts'
            /\ (pc = "loop" /\ pc' = "done") =>
                 /\ attempts' = attempts /\ rows' = rows
                 /\ Len(rows) = n \/ attempts = max_attempts_of_run]_vars

\* The rows made before the loop of the running script: the baseline rows
\* of the study-researcher script, from max_attempts = 20 (n - baseline).
rows_before_loop ==
    IF prog = "study_researchers" THEN n - max_attempts \div 20 ELSE 0

\* The pairs of the rows made before the loop.
pairs_before_loop ==
    IF prog = "study_researchers"
    THEN {<<rows[k].study_id, rows[k].researcher_id>> :
             k \in 1..rows_before_loop}
    ELSE {}

\* The pools cannot supply the new pairs the loop needs to reach n rows.
pool_short_at_loop_start ==
    Cardinality(pool_pairs \ pairs_before_loop) < n - rows_before_loop

\* What the pairing loops keep of C10: everything but the last conjunct as
\* stated, and a loop whose pools cannot supply the new pairs it needs at
\* its start ends with fewer than n rows.
C10_BoundedPairingLoopsFromLoopStart ==
    /\ []((left_pool # <<>> /\ right_pool # <<>>) =>
            /\ pc # "error"
            /\ pc = "loop" =>
                 /\ Len(rows) <= n
                 /\ prog # "study_researchers" => attempts <= attempts_cap(0)
                 /\ ENABLED Next
            /\ after_loop =>
                 /\ Len(rows) <= n
                 /\ prog # "study_researchers" => attempts <= attempts_cap(0)
                 /\ (~allow_duplicates /\ pool_short_at_loop_start)
                      => Len(rows) < n)
    /\ [][(left_pool # <<>> /\ right_pool # <<>>) =>
            /\ (pc = "loop" /\ pc' = "loop") =>
                 /\ attempts' = attempts + 1
                 /\ Len(rows') \in {Len(rows), Len(rows) + 1}
            /\ (pc = "baseline" /\ pc' = "loop") =>
                 /\ attempts' = 0
                 /\ max_attempts' = attempts_cap(Len(rows))
            /\ (prog = "study_researchers" /\ pc' \in {"loop", "done"}) =>
                 attempts' <= max_attempts'
            /\ (pc = "loop" /\ pc' = "done") =>
                 /\ attempts' = attempts /\ rows' = rows
                 /\ Len(rows) = n \/ attempts = max_attempts_of_run]_vars

\* A loop on pools too small for n pairs that ran to its cap and ended
\* with fewer than n rows.
C10_EndedAtCapWithFewerRows ==
    /\ after_loop
    /\ left_pool # <<>> /\ right_pool # <<>>
    /\ n >= 2 /\ pool_too_small
    /\ Len(rows) >= 1 /\ Len(rows) < n
    /\ attempts = max_attempts_of_run

\* A study-researcher run on pools with fewer than n distinct pairs that
\* ended with n rows: two baseline rows repeat a pair, and the top-up
\* added the pair that was left.
C10_TargetMetByRepeatedPair ==
    /\ prog = "study_researchers" /\ after_loop
    /\ ~allow_duplicates /\ pool_too_small
    /\ Len(rows) = n
    /\ Len(rows) > rows_before_loop
    /\ Cardinality(pairs_before_loop) < rows_before_loop
(***************************************************************************)
(* Properties of the session generator                                     *)
(***************************************************************************)
\* The interval of a session row, read back from its texts.
row_interval(row) ==
    <<The(parse_dt(row.startTs)), The(parse_dt(row.endTs))>>

\* Two intervals share more than an end point.
intervals_intersect(a, b) == a[1] < b[2] /\ b[1] < a[2]

\* The interval intersects that of a row of the room among the given rows.
intersects_room_rows(interval, room_id, earlier) ==
    \E i \in 1..Len(earlier) :
        /\ earlier[i].room_id = room_id
        /\ intervals_intersect(interval, row_interval(earlier[i]))

\* C11: placing a session draws at most 20 candidates and always returns
\* one: a candidate is passed over only if it overlaps a stored interval of
\* the room and is not the 20th, and the candidate stored is one that
\* overlaps no earlier session of the room, or else the 20th.
C11_BestEffortNoOverlap ==
    /\ []((prog = "sessions" /\ pc = "pick") =>
            /\ tries < 20
            /\ ENABLED (SessPlace \/ SessFallback \/ SessRetry)
            /\ tries = 19 => ~ENABLED SessRetry)
    /\ [][prog = "sessions" =>
            /\ (pc = "pick" /\ pc' = "pick") =>
                 /\ tries' = tries + 1
                 /\ rows' = rows
                 /\ intersects_room_rows(picked', cur.room.room_id, rows)
            /\ (pc = "pick" /\ pc' = "rows") =>
                 /\ Len(rows') = Len(rows) + 1
                 /\ SubSeq(rows', 1, Len(rows)) = rows
                 /\ rows'[Len(rows')].room_id = cur.room.room_id
                 /\ intersects_room_rows(row_interval(rows'[Len(rows')]),
                                         cur.room.room_id, rows)
                      => tries = 19]_vars

\* A session was stored although it overlaps an earlier one of its room.
C11_Witness ==
    /\ prog = "sessions" /\ pc = "done"
    /\ \E j \in 1..Len(rows) :
         intersects_room_rows(row_interval(rows[j]), rows[j].room_id,
                              SubSeq(rows, 1, j - 1))
\* C12: a session's capacity does not exceed the capacity of its room,
\* whenever the rooms file gives the room an integer capacity.
C12_SessionCapacityWithinRoom ==
    prog = "sessions" =>
        \A i \in 1..Len(rows), j \in 1..Len(rooms) :
            (rooms[j].room_id = rows[i].room_id
                /\ rooms[j].capacity # None) =>
                rows[i].capacity <= The(rooms[j].capacity)

\* The same for the rooms whose capacity is at least 2.
C12_SessionCapacityWithinRoomOfTwoOrMore ==
    prog = "sessions" =>
        \A i \in 1..Len(rows), j \in 1..Len(rooms) :
            (rooms[j].room_id = rows[i].room_id
                /\ rooms[j].capacity # None
                /\ The(rooms[j].capacity) >= 2) =>
                rows[i].capacity <= The(rooms[j].capacity)
(***************************************************************************)
(* Further properties of the enrollment generator                          *)
(***************************************************************************)
\* The session ids that have a seat count before or after a step.
counted_session_ids ==
    {sessions[j].session_id : j \in 1..Len(sessions)}
        \cup DOMAIN session_used \cup DOMAIN session_used'

\* C13: accepting a cancelled or waitlisted row leaves every session's seat
\* count unchanged; accepting an enrolled, attended or no_show row adds
\* exactly 1 to the seat count of the row's session and leaves the other
\* seat counts unchanged.
C13_SeatCountFrame ==
    [][(prog = "enrollments" /\ Len(rows') = Len(rows) + 1) =>
          LET row == rows'[Len(rows')]
          IN  \A sid \in counted_session_ids :
                seats_taken(session_used', sid) =
                    seats_taken(session_used, sid)
                    + (IF sid = row.session_id
                          /\ row.status \in {"enrolled", "attended", "no_show"}
                       THEN 1 ELSE 0)]_vars

\* A row that took a seat and a later row that took none were accepted.
C13_Witness ==
    /\ prog = "enrollments"
    /\ Len(rows) = 2
    /\ rows[1].status \in {"enrolled", "attended", "no_show"}
    /\ rows[2].status \in {"cancelled", "waitlisted"}
    /\ seats_taken(session_used, rows[1].session_id) = 1
\* The sessions of the pool that carry the row's session id.
sessions_of(row) ==
    {sessions[j] : j \in {k \in 1..Len(sessions) :
                            sessions[k].session_id = row.session_id}}

\* The session has a capacity and its seats are all taken.
session_is_full(sess) ==
    /\ sess.capacity # None
    /\ seats_taken(session_used, sess.session_id)
           >= Max(0, The(sess.capacity))

\* C14 as stated: a row of a session that ends by the end of the reference
\* date has a status among attended, no_show, cancelled, enrolled; a row of
\* a session that ends later has one among enrolled, cancelled, waitlisted.
C14_StatusByTiming ==
    prog = "enrollments" =>
        \A i \in 1..Len(rows) : \A sess \in sessions_of(rows[i]) :
            /\ sess_end(sess) <= today_end =>
                 rows[i].status \in
                     {"attended", "no_show", "cancelled", "enrolled"}
            /\ sess_end(sess) > today_end =>
                 rows[i].status \in {"enrolled", "cancelled", "waitlisted"}

\* C14 (amended): the same, except that a row of a session that ended by
\* the end of the reference date is waitlisted when the session had no
\* seat left for it.
C14_StatusByTimingOrWaitlisted ==
    prog = "enrollments" =>
        \A i \in 1..Len(rows) : \A sess \in sessions_of(rows[i]) :
            /\ sess_end(sess) <= today_end =>
                 \/ rows[i].status \in
                        {"attended", "no_show", "cancelled", "enrolled"}
                 \/ rows[i].status = "waitlisted" /\ session_is_full(sess)
            /\ sess_end(sess) > today_end =>
                 rows[i].status \in {"enrolled", "cancelled", "waitlisted"}

\* A run with an attended or no_show row of an ended session and a row of
\* a coming session.
C14_Witness ==
    /\ prog = "enrollments"
    /\ \E i \in 1..Len(rows) : \E sess \in sessions_of(rows[i]) :
         /\ sess_end(sess) <= today_end
         /\ rows[i].status \in {"attended", "no_show"}
    /\ \E i \in 1..Len(rows) : \E sess \in sessions_of(rows[i]) :
         /\ sess_end(sess) > today_end
(***************************************************************************)
(* Further properties of the payment generator                             *)
(***************************************************************************)
\* The payment statuses the enrollment status allows.
allowed_payment_statuses(enrollment_status) ==
    CASE enrollment_status = "waitlisted" -> {"void"}
      [] enrollment_status = "cancelled" ->
           {"refunded", "void", "failed", "waived"}
      [] enrollment_status = "attended" ->
           {"paid", "pending", "refunded", "failed"}
      [] enrollment_status = "no_show" ->
           {"waived", "pending", "paid", "refunded", "failed"}
      [] OTHER -> {"pending", "paid", "failed", "refunded", "waived"}

\* The enrollments of the pool that the payment row can have been made for.
enrollments_of(row) ==
    {enrollments[i] : i \in {k \in 1..Len(enrollments) :
        /\ enrollments[k].participant_id = row.participant_id
        /\ enrollments[k].session_id = row.session_id}}

\* C15: the status of every payment row is one the status of its
\* enrollment allows: waitlisted gives void; cancelled gives refunded,
\* void, failed or waived; attended gives paid, pending, refunded or failed
\* and so a positive amount; no_show gives waived, pending, paid, refunded
\* or failed; enrolled and any other status give pending, paid, failed,
\* refunded or waived.
C15_PaymentStatusAllowed ==
    prog = "payments" =>
        \A i \in 1..Len(rows) :
            /\ \E e \in enrollments_of(rows[i]) :
                 rows[i].status \in allowed_payment_statuses(e.status)
            /\ (\A e \in enrollments_of(rows[i]) : e.status = "attended")
                 => rows[i].amount > 0

\* A run that made a payment for a waitlisted and one for a cancelled
\* enrollment.
C15_Witness ==
    /\ prog = "payments" /\ pc = "done"
    /\ Len(rows) = 2
    /\ \E i, j \in 1..2 :
         /\ \A e \in enrollments_of(rows[i]) : e.status = "waitlisted"
         /\ \A e \in enrollments_of(rows[j]) : e.status = "cancelled"
         /\ rows[j].status = "refunded"
(***************************************************************************)
(* Further properties of the consent generators                            *)
(***************************************************************************)
\* The signing window of a loaded version of the file-driven generator is
\* not empty.
version_window_nonempty(v) ==
    The(v.from) <= (IF v.to = None THEN today_end
                    ELSE IF The(v.to) < today_end THEN The(v.to)
                    ELSE today_end)

all_windows_nonempty ==
    prog = "consents_file" =>
        \A j \in 1..Len(versions) : version_window_nonempty(versions[j])

\* C16: in every ParticipantConsent variant, without --allow-duplicates no
\* two rows share (participant_id, consent_version_id); with it, and every
\* version having a non-empty signing window, a finished run has exactly n
\* rows.
C16_PairsUniqueUnlessAllowed ==
    (prog = "consents_file" \/ prog \in SynthProgs) =>
        /\ ~allow_duplicates =>
             \A i, j \in 1..Len(rows) :
                 (rows[i].participant_id = rows[j].participant_id
                     /\ rows[i].consent_version_id
                            = rows[j].consent_version_id) => i = j
        /\ (allow_duplicates /\ all_windows_nonempty /\ pc = "done") =>
             Len(rows) = n

\* A finished run with --allow-duplicates whose n = 2 rows repeat a pair.
C16_Witness ==
    /\ prog = "consents_file" \/ prog \in SynthProgs
    /\ allow_duplicates /\ all_windows_nonempty /\ pc = "done"
    /\ n = 2 /\ Len(rows) = 2
    /\ rows[1].participant_id = rows[2].participant_id
    /\ rows[1].consent_version_id = rows[2].consent_version_id
\* No participant id can be resolved: the participants file is missing,
\* is a CSV without an id column, or holds no non-empty id (as do JSON
\* objects without the key).
no_participant_resolved ==
    \/ ~participants_file.exists
    \/ participants_file.shape = "csv" /\ ~participants_file.has_column
    \/ \A k \in 1..Len(participants_file.ids) : participants_file.ids[k] = ""

\* No consent version is usable: the versions file is missing, is a CSV
\* without one of the columns or a JSON file whose objects all lack
\* effectiveFrom, or every version in it starts after the reference date.
no_version_usable ==
    \/ ~consents_head.exists
    \/ consents_head.shape = "csv" /\ ~consents_head.has_columns
    \/ /\ consents_head.shape = "json" /\ ~consents_head.has_columns
       /\ \A k \in 1..Len(consents_file) :
            consents_file[k].effectiveFrom = BlankText
    \/ \A k \in 1..Len(consents_file) : version_is_future(consents_file[k])

\* C17: in the file-driven ParticipantConsent generator a run that can
\* resolve no participant id or has no usable consent version stops with
\* an error at its first step, and never writes the output file.
C17_AbortsBeforeWriting ==
    /\ []((prog = "consents_file"
              /\ (no_participant_resolved \/ no_version_usable)) =>
            /\ pc \in {"start", "error"}
            /\ rows = <<>>
            /\ outfile = None
            /\ pc = "start" => ENABLED ConsentFileLoadError)
    /\ [][(prog = "consents_file"
              /\ (no_participant_resolved \/ no_version_usable)) =>
            (pc' = "error" /\ outfile' = outfile)]_vars

\* The participants file is a .json file that holds a non-empty list of
\* plain values.
ids_read_unfiltered ==
    /\ participants_file.exists
    /\ participants_file.shape = "json_list"
    /\ participants_file.ids # <<>>

\* What the generator keeps of C17: the run stops with an error at its
\* first step and writes nothing when no consent version is usable or no
\* participant id can be resolved, unless the participants file is a JSON
\* list of plain values, whose empty values are read as ids.
C17_AbortsBeforeWritingUnlessPlainList ==
    /\ []((prog = "consents_file" /\ ~ids_read_unfiltered
              /\ (no_participant_resolved \/ no_version_usable)) =>
            /\ pc \in {"start", "error"}
            /\ rows = <<>>
            /\ outfile = None
            /\ pc = "start" => ENABLED ConsentFileLoadError)
    /\ [][(prog = "consents_file" /\ ~ids_read_unfiltered
              /\ (no_participant_resolved \/ no_version_usable)) =>
            (pc' = "error" /\ outfile' = outfile)]_vars

\* A run stopped with an error although its participants were read, since
\* every version of the file starts after the reference date.
C17_StoppedForFutureVersions ==
    /\ prog = "consents_file" /\ pc = "error"
    /\ participants # <<>>
    /\ consents_file # <<>>
    /\ no_version_usable /\ ~no_participant_resolved
    /\ outfile = None

\* A finished run over a participants file without a non-empty id that
\* wrote a row with an empty participant_id.
C17_BlankIdWritten ==
    /\ prog = "consents_file" /\ pc = "done"
    /\ no_participant_resolved
    /\ outfile # None
    /\ \E i \in 1..Len(rows) : rows[i].participant_id = ""
(***************************************************************************)
(* Properties of repeated runs                                             *)
(***************************************************************************)
\* A row without its identifier.
without_id(row) == [f \in DOMAIN row \ {"participant_id"} |-> row[f]]

\* C18: two runs of a generator with the same seed, flags and input files
\* produce identical rows, identifier fields included.
C18_SameSeedSameRows ==
    (prog = "participants" /\ pc = "done") => rows_again = rows

\* The rows of the two runs agree in every field but the identifier.
C18_SameSeedSameRowsButIds ==
    prog = "participants" =>
        /\ Len(rows_again) = Len(rows)
        /\ \A i \in 1..Len(rows) :
             without_id(rows_again[i]) = without_id(rows[i])
(***************************************************************************)
(* Timing properties of the enrollment rows                                *)
(***************************************************************************)
\* C19: every enrollment row's created_at is at least 30 minutes before
\* the start of its session, whether the session started in the past,
\* starts soon or starts more than 90 days after the reference date.
C19_CreatedBeforeSessionStart ==
    prog = "enrollments" =>
        \A i \in 1..Len(rows) : \A sess \in sessions_of(rows[i]) :
            row_created(rows[i]) + timedelta(0, 0, 30, 0) <= sess_start(sess)

\* A row of a session that starts more than 90 days after the reference
\* date, created exactly 30 minutes before the start.
C19_Witness ==
    /\ prog = "enrollments"
    /\ \E i \in 1..Len(rows) : \E sess \in sessions_of(rows[i]) :
         /\ sess_start(sess) > today_end + timedelta(90, 0, 0, 0)
         /\ row_created(rows[i]) + timedelta(0, 0, 30, 0) = sess_start(sess)
\* C20: every row with status attended or no_show belongs to a session
\* that has ended by the end of the reference date, and its updated_at is
\* neither before that session's end nor after the end of the reference
\* date.
C20_OutcomeAfterSessionEnd ==
    prog = "enrollments" =>
        \A i \in 1..Len(rows) :
            rows[i].status \in {"attended", "no_show"} =>
                \E sess \in sessions_of(rows[i]) :
                    /\ sess_end(sess) <= today_end
                    /\ sess_end(sess) <= row_updated(rows[i])
                    /\ row_updated(rows[i]) <= today_end

\* What the enrollment generator keeps of C20: the session of an attended
\* or no_show row has ended by the end of the reference date, and the
\* written updated_at is less than a second before that session's end
\* (updated_at is written without its fraction of a second) and not after
\* the end of the reference date.
C20_OutcomeAfterSessionEndOfSeconds ==
    prog = "enrollments" =>
        \A i \in 1..Len(rows) :
            rows[i].status \in {"attended", "no_show"} =>
                \E sess \in sessions_of(rows[i]) :
                    /\ sess_end(sess) <= today_end
                    /\ sess_end(sess)
                          < row_updated(rows[i]) + timedelta(0, 0, 0, 1)
                    /\ row_updated(rows[i]) <= today_end

\* An attended or no_show row whose written updated_at is before the end
\* of every session with its id.
C20_UpdatedBeforeSessionEnd ==
    /\ prog = "enrollments"
    /\ \E i \in 1..Len(rows) :
         /\ rows[i].status \in {"attended", "no_show"}
         /\ \A sess \in sessions_of(rows[i]) :
              row_updated(rows[i]) < sess_end(sess)
(***************************************************************************)
(* Further properties of the study-researcher generator                    *)
(***************************************************************************)
\* The number of rows of the study with the role.
role_count(sid, role) ==
    Cardinality({k \in 1..Len(rows) :
                    rows[k].study_id = sid /\ rows[k].role = role})

\* C21: after the baseline every study has between 0 and 2 coordinator
\* rows and between ra_min and ra_max RA rows, for every researcher pool.
C21_BaselineRoleCounts ==
    (prog = "study_researchers" /\ pc = "baseline") =>
        \A i \in 1..study_idx :
            /\ role_count(studies[i], "coordinator") \in 0..2
            /\ role_count(studies[i], "RA")
                   \in sr_args.ra_min..sr_args.ra_max

\* The same with the upper bounds only, for a study pool without repeated
\* ids.
C21_BaselineRoleCountsAtMost ==
    (prog = "study_researchers" /\ pc = "baseline"
        /\ Cardinality(Range(studies)) = Len(studies)) =>
        \A i \in 1..study_idx :
            /\ role_count(studies[i], "coordinator") \in 0..2
            /\ role_count(studies[i], "RA") <= sr_args.ra_max
\* The rows of a sequence are the first rows of another.
starts_with(longer, shorter) ==
    /\ Len(shorter) <= Len(longer)
    /\ \A k \in 1..Len(shorter) : longer[k] = shorter[k]

\* C22: every step of the study-researcher run keeps the rows it already
\* has; a run whose baseline has n or more rows writes the baseline as it
\* is, and a run with --n set writes at least n rows.
C22_TopUpReachesTarget ==
    [][prog = "study_researchers" =>
          /\ starts_with(rows', rows)
          /\ (pc = "baseline" /\ pc' = "done") => rows' = rows
          /\ (pc # "done" /\ pc' = "done" /\ n # 0) => Len(rows') >= n]_vars

\* The same, where the top-up promises n rows only when it stops before its
\* attempts are used up.
C22_TopUpReachesTargetOrGivesUp ==
    [][prog = "study_researchers" =>
          /\ starts_with(rows', rows)
          /\ (pc = "baseline" /\ pc' = "done") => rows' = rows
          /\ (pc # "done" /\ pc' = "done" /\ n # 0) =>
                Len(rows') >= n \/ attempts >= max_attempts]_vars
(***************************************************************************)
(* Pair uniqueness of the payment generator                                *)
(***************************************************************************)
\* The enrollment pool lists a (participant_id, session_id) pair twice.
pool_repeats_pair ==
    \E i, j \in 1..Len(enrollments) :
        i # j /\ pay_pair(enrollments[i]) = pay_pair(enrollments[j])

\* C23: no two payment rows share the same (participant_id, session_id)
\* pair, also when the enrollment pool lists a pair more than once, and
\* the pair of every payment row is the pair of an enrollment of the pool.
C23_PaymentPairsUnique ==
    prog = "payments" =>
        /\ \A i, j \in 1..Len(rows) :
              i # j => pay_pair(rows[i]) # pay_pair(rows[j])
        /\ \A i \in 1..Len(rows) : enrollments_of(rows[i]) # {}

\* A run on a pool that lists a pair twice, in which a payment was made
\* for the pair and a later attempt on it was rejected.
C23_Witness ==
    /\ prog = "payments"
    /\ pool_repeats_pair
    /\ Len(rows) >= 1
    /\ attempts > Len(rows)
(***************************************************************************)
(* Withdrawal times of the synthetic consent generators                    *)
(***************************************************************************)
\* C24: in the two synthetic ParticipantConsent generators every non-empty
\* withdrawnAt is strictly after signedAt and not later than the end of
\* the reference date, whatever signedAt was drawn.
C24_SynthWithdrawnNotInFuture ==
    prog \in SynthProgs =>
        \A i \in 1..Len(rows) :
            is_withdrawn(rows[i]) =>
                /\ row_signed(rows[i]) < row_withdrawn(rows[i])
                /\ row_withdrawn(rows[i]) <= today_end

\* The same for the rows signed at least a minute before the end of the
\* reference date.
C24_SynthWithdrawnNotInFutureSignedEarlier ==
    prog \in SynthProgs =>
        \A i \in 1..Len(rows) :
            (/\ is_withdrawn(rows[i])
             /\ row_signed(rows[i]) + timedelta(0, 0, 1, 0) <= today_end) =>
                /\ row_signed(rows[i]) < row_withdrawn(rows[i])
                /\ row_withdrawn(rows[i]) <= today_end
(***************************************************************************)
(* Upper bounds of updated_at in the enrollment generator                  *)
(***************************************************************************)
\* The latest updated_at the status allows for a row of the session.
updated_limit(status, sess) ==
    IF status = "cancelled"
    THEN Min(today_end, sess_start(sess) - timedelta(0, 0, 10, 0))
    ELSE Min(today_end, sess_start(sess))

\* C25: updated_at of an enrolled or waitlisted row is not later than
\* min(end of the reference date, session start), and updated_at of a
\* cancelled row is not later than min(end of the reference date, session
\* start minus 10 minutes).
C25_UpdatedWithinLimit ==
    prog = "enrollments" =>
        \A i \in 1..Len(rows) :
            rows[i].status \in {"enrolled", "waitlisted", "cancelled"} =>
                \E sess \in sessions_of(rows[i]) :
                    row_updated(rows[i]) <= updated_limit(rows[i].status, sess)

\* The same for the rows created at least a minute before the limit.
C25_UpdatedWithinLimitCreatedEarlier ==
    prog = "enrollments" =>
        \A i \in 1..Len(rows) :
            rows[i].status \in {"enrolled", "waitlisted", "cancelled"} =>
                \E sess \in sessions_of(rows[i]) :
                    row_created(rows[i]) + timedelta(0, 0, 1, 0)
                        <= updated_limit(rows[i].status, sess)
                    => row_updated(rows[i])
                        <= updated_limit(rows[i].status, sess)
(***************************************************************************)
(* Properties of the room generator                                        *)
(***************************************************************************)
room_pair(row) == <<row.building, row.name>>

\* The row's name came from the fallback of make_row.
is_fallback_row(row) == row.name \notin drawn_names

\* C26: no two room rows share the same (building, name) pair, whatever n
\* is and also for rows named by the fallback that follows 20 colliding
\* draws, and a finished run has exactly n rows.
C26_RoomPairsUnique ==
    prog = "rooms" =>
        /\ \A i, j \in 1..Len(rows) :
              i # j => room_pair(rows[i]) # room_pair(rows[j])
        /\ pc = "done" => Len(rows) = n

\* The same, where two rows are told apart only if one of them was not
\* named by the fallback.
C26_RoomPairsUniqueButFallbacks ==
    prog = "rooms" =>
        /\ \A i, j \in 1..Len(rows) :
              (i # j /\ ~(is_fallback_row(rows[i]) /\ is_fallback_row(rows[j])))
                  => room_pair(rows[i]) # room_pair(rows[j])
        /\ pc = "done" => Len(rows) = n
(***************************************************************************)
(* Timestamps of the participant and study generators                      *)
(***************************************************************************)
\* The days rand_ts_between is asked to go back by the running script.
days_back_of_run == IF prog = "participants" THEN 365 ELSE 540

\* C27: created_at of every participant and study row lies within the
\* last N days before the reference date (365 for participants, 540 for
\* studies) and is never after the reference date, and updated_at is not
\* before created_at.
C27_CreatedWithinLastDays ==
    prog \in {"participants", "studies"} =>
        \A i \in 1..Len(rows) :
            /\ today_start - timedelta(days_back_of_run, 0, 0, 0)
                   <= row_created(rows[i])
            /\ row_created(rows[i]) <= today_end
            /\ row_created(rows[i]) <= row_updated(rows[i])

\* The same with the N days counted forward from the start of the
\* reference date.
C27_CreatedWithinNextDays ==
    prog \in {"participants", "studies"} =>
        \A i \in 1..Len(rows) :
            /\ today_start <= row_created(rows[i])
            /\ row_created(rows[i])
                   <= today_start + timedelta(days_back_of_run, 0, 0, 0)
            /\ row_created(rows[i]) <= row_updated(rows[i])
(***************************************************************************)
(* The seat counters of the enrollment generator                           *)
(***************************************************************************)
\* The number of accepted rows of the session that are enrolled, attended
\* or no_show.
seat_rows(sid) ==
    Cardinality({i \in 1..Len(rows) :
        /\ rows[i].session_id = sid
        /\ rows[i].status \in {"enrolled", "attended", "no_show"}})

\* The seat counter of every session equals the number of its seat rows.
seat_counters_match ==
    \A sid \in {sessions[j].session_id : j \in 1..Len(sessions)}
                  \cup DOMAIN session_used :
        seats_taken(session_used, sid) = seat_rows(sid)

\* C28: after any sequence of attempts the seat counter of each session
\* equals the number of accepted rows of that session with status
\* enrolled, attended or no_show, and an attempt rejected as a duplicate
\* changes neither the counters nor the set of used pairs.
C28_SeatCounterCountsRows ==
    /\ [](prog = "enrollments" => seat_counters_match)
    /\ [][(prog = "enrollments" /\ attempts' = attempts + 1
             /\ rows' = rows) =>
            (session_used' = session_used /\ used_pairs' = used_pairs)]_vars

\* A run in which a row took a seat, a row that takes none followed, and
\* a later attempt was rejected as a duplicate.
C28_Witness ==
    /\ prog = "enrollments"
    /\ Len(rows) = 2
    /\ attempts > Len(rows)
    /\ rows[1].status \in {"enrolled", "attended", "no_show"}
    /\ rows[2].status \in {"cancelled", "waitlisted"}
    /\ rows[2].session_id = rows[1].session_id
    /\ seats_taken(session_used, rows[1].session_id) = 1
(***************************************************************************)
(* Pair uniqueness of the study-researcher generator                       *)
(***************************************************************************)
sr_pair(row) == <<row.study_id, row.researcher_id>>

\* No id is listed twice in the study pool or in the researcher pool.
sr_pools_without_repeats ==
    /\ Cardinality(Range(studies)) = Len(studies)
    /\ Cardinality(Range(researchers)) = Len(researchers)

\* C29: no two study-researcher rows share the same (study_id,
\* researcher_id) pair, baseline and top-up rows taken together, whatever
\* the pools are, pools that list an id more than once included.
C29_StudyResearcherPairsUnique ==
    prog = "study_researchers" =>
        \A i, j \in 1..Len(rows) :
            i # j => sr_pair(rows[i]) # sr_pair(rows[j])

\* The same for pools that list no id twice.
C29_StudyResearcherPairsUniqueDistinctIds ==
    (prog = "study_researchers" /\ sr_pools_without_repeats) =>
        \A i, j \in 1..Len(rows) :
            i # j => sr_pair(rows[i]) # sr_pair(rows[j])
(***************************************************************************)
(* Full sessions of the enrollment generator                               *)
(***************************************************************************)
\* The step keeps full sessions full: the seat count of a session whose
\* seats are all taken does not go down, and a row the step accepts for it
\* is waitlisted.
full_sessions_stay_full(pool) ==
    \A j \in 1..Len(pool) :
        session_is_full(pool[j]) =>
            /\ seats_taken(session_used', pool[j].session_id)
                   >= seats_taken(session_used, pool[j].session_id)
            /\ (/\ Len(rows') = Len(rows) + 1
                /\ rows'[Len(rows')].session_id = pool[j].session_id)
                   => rows'[Len(rows')].status = "waitlisted"

\* Every session id of the pool is listed with one capacity only.
one_capacity_per_session ==
    \A j, k \in 1..Len(sessions) :
        sessions[j].session_id = sessions[k].session_id
            => sessions[j].capacity = sessions[k].capacity

\* C30: once the seat count of a session with a known capacity has
\* reached the capacity it never decreases, and every row accepted for
\* that session afterwards is waitlisted, for past and future sessions.
C30_FullSessionsWaitlist ==
    [][prog = "enrollments" => full_sessions_stay_full(sessions)]_vars

\* The same for pools that list every session id with one capacity only.
C30_FullSessionsWaitlistOneCapacity ==
    [][(prog = "enrollments" /\ one_capacity_per_session)
          => full_sessions_stay_full(sessions)]_vars
=============================================================================
